---- MODULE Spec2Model ----
(***************************************************************************)
(* A model of the order lifecycle and reconciliation engine of the Tegro   *)
(* exchange connector (hummingbot/connector/exchange/tegro/                 *)
(* tegro_exchange.py): the poll path _update_order_fills_from_trades with   *)
(* _user_trades, the order submission _place_order and the cancellation     *)
(* _place_cancel.                                                           *)
(*                                                                          *)
(* Conventions.  Decimal prices and amounts are integers.  Timestamps are   *)
(* whole seconds; a millisecond timestamp is seconds * 1000.  A JSON value  *)
(* that Python keeps as an int or as a str is a record [json, text], so     *)
(* that 30000 and "30000" are different values, as they are in Python.      *)
(* The text of an IOError is the set of the substrings the code looks for   *)
(* that occur in it.                                                        *)
(***************************************************************************)
EXTENDS Integers, Sequences, FiniteSets, TLC

\* ------------------------------------------------------------------ bounds
\* The clock runs over 1..MaxTime seconds.
MaxTime == 2
\* Runs of _update_order_fills_from_trades that pass the interval guard.
MaxPolls == 2
\* Trading pairs the connector is configured with.
MaxPairs == 2
\* Order ids in one answer of the cancel POST.
MaxCancelled == 2
\* Messages the listener takes from the user-stream queue.
MaxMessages == 2

\* The longest market list the exchange answers with.
MaxMarkets == 2

\* --------------------------------------------------------------- constants
UPDATE_ORDER_STATUS_MIN_INTERVAL == 10
\* ExchangePyBase.LONG_POLL_INTERVAL, in seconds.
LONG_POLL_INTERVAL == 120

\* ------------------------------------------------------------------ values
JsonNumber(t) == [json |-> "number", text |-> t]
JsonString(t) == [json |-> "string", text |-> t]

\* Python's str(): an int becomes its decimal text, a str stays itself.
Str(v) == [json |-> "string", text |-> v.text]

\* The exchange order ids the exchange may list, as str(order["order_id"]).
ExOrderIds == {"100234", "99999"}

\* The order the connector places and tracks in these runs, and the order of
\* an earlier session that the market recorder holds.
TrackableIds == {"100234"}
RecordedIds == {"99999"}

\* The client order id an exchange order id was created or recorded with.
ClientOrderId(x) == IF x = "100234" THEN "OID1" ELSE "OID99"

\* The trade the exchange holds for each order, by its id as the JSON
\* carries it (a number).
TradeOfOrder(x) ==
    IF x = "100234" THEN JsonNumber("28457") ELSE JsonNumber("30000")

TradeIds == {TradeOfOrder(x) : x \in ExOrderIds}

\* The fields of the trade with a given id, as the exchange reports them;
\* "timestamp" is in milliseconds.
TradeData(id) ==
    IF id.text = "28457"
    THEN [id |-> id, symbol |-> <<"COINALPHA", "HBOT">>, price |-> 9999,
          amount |-> 1, timestamp |-> 1500]
    ELSE [id |-> id, symbol |-> <<"COINALPHA", "HBOT">>, price |-> 4,
          amount |-> 12, timestamp |-> 2000]

AllPairs == <<"COINALPHA-HBOT", "ETH-USDT", "BTC-USDT", "SOL-USDT">>

\* exchange_symbol_associated_to_pair: "COINALPHA-HBOT" is "COINALPHA_HBOT"
\* on the exchange; a symbol is kept as its two tokens.
exchange_symbol_associated_to_pair(trading_pair) ==
    CASE trading_pair = "COINALPHA-HBOT" -> <<"COINALPHA", "HBOT">>
      [] trading_pair = "ETH-USDT" -> <<"ETH", "USDT">>
      [] trading_pair = "BTC-USDT" -> <<"BTC", "USDT">>
      [] OTHER -> <<"SOL", "USDT">>

\* All sequences over S of length at most n.
SeqsUpTo(S, n) == UNION {[1..k -> S] : k \in 0..n}

\* The sequences of SeqsUpTo(S, n) without a repeated element.
DistinctSeqs(S, n) ==
    {s \in SeqsUpTo(S, n) : \A i, j \in 1..Len(s) : i # j => s[i] # s[j]}

VARIABLES
    \* ---- the connector and its host, for the poll path
    current_timestamp,        \* the clock, seconds
    last_poll_timestamp,      \* _last_poll_timestamp
    trading_pairs,            \* _trading_pairs
    active_orders,            \* the tracker's in-flight orders, by exchange id
    cached_orders,            \* orders no longer in flight, still fillable
    exchange_order_ids,       \* keys of _exchange_order_ids (recorded orders)
    current_trade_fills,      \* _current_trade_fills
    poll_pc,                  \* "idle", or "fetching": awaiting _user_trades
    order_by_exchange_id_map, \* the (last) poll's local map, built before the await
    polls,                    \* polls that passed the guard so far
    \* ---- what the poll last did, and what left the engine
    user_trades,              \* the list _user_trades returned to the poll
    poll_outcome,             \* "none", "done" or "raised"
    poll_listed,              \* the order listing of the poll was answered
    trade_requests,           \* its per-order trade requests and their answers
    poll_handled,             \* trades the poll's loop body ran for
    poll_updates,             \* TradeUpdates of the last poll, in order
    poll_events,              \* OrderFilled events of the last poll, in order
    trade_update_calls,       \* process_trade_update calls per trade id text
    order_filled_events,      \* backfill OrderFilled events per exchange_trade_id
    order_fills,              \* the tracked orders' order_fills: <<order, trade_id>>
    fills_applied,            \* fills the tracker applied, per order and trade id text
    \* ---- _place_order
    place_pc,                 \* "idle", "typed_data", "posting", "approving",
                              \* "returned" or "raised"
    place_order_type,         \* the order_type argument
    place_error,              \* the exception the order POST raised, or NoError
    place_result,             \* the returned (o_id, transact_time), or NoResult
    place_raised,             \* the exception _place_order raised, or NoError
    typed_data_requests,      \* POSTs to GENERATE_SIGN_URL of this call
    order_posts,              \* POSTs to ORDER_PATH_URL of this call
    approve_calls,            \* approve_allowance calls of this call
    approve_input,            \* what fails in the last approve_allowance run
    approve_outcome,          \* how it ended: "none" before, "receipt",
                              \* "None" or "raised"
    approvals_sent,           \* the tokens whose approval it sent, in order
    \* ---- _place_cancel
    cancel_pc,                \* "idle", "typed_data", "posting", "returned" or "raised"
    cancel_ids,               \* ids: the exchange order ids to cancel
    cancel_error,             \* the exception the typed-data request raised, or NoError
    cancel_response,          \* cancel_result["cancelled_order_ids"], once received
    cancel_returned,          \* the value returned: "True", "False", "None"; or "nothing"
    cancel_raised,            \* the exception _place_cancel raised, or NoError
    cancel_signs,             \* sign_message calls of this call
    cancel_posts,             \* POSTs to CANCEL_ORDER_URL of this call
    not_found_calls,          \* process_order_not_found calls of this call
    cancel_post_error,        \* the exception the cancel POST raised, or NoError
    cancel_for_lost,          \* the cancel is one of _cancel_lost_orders
    lost_orders,              \* the tracker's lost orders, by exchange order id
    canceled_update,          \* a CANCELED OrderUpdate was applied for this cancel
    cancelled_event,          \* an order-cancelled event was emitted for it
    \* ---- _user_stream_event_listener
    listener_pc,              \* "waiting" for the next message, "backoff" in
                              \* _sleep(5.0), "cancelled" or "crashed"
    listener_handled,         \* messages taken from the queue so far
    listener_last,            \* the message handled last, or NoMessage
    listener_outcome,         \* what the loop body did with it
    listener_exception,       \* the exception the body raised for it, or "none"
    listener_errors,          \* "Unexpected error in user stream listener loop." logs
    listener_backoffs,        \* _sleep(5.0) calls
    listener_raised,          \* the exception that ended the listener, or "none"
    listener_cancels,         \* cancellation signals that reached the listener
    listener_trade_updates,   \* process_trade_update calls of the listener
    order_update_calls,       \* process_order_update calls of the listener
    listener_order_update,    \* the OrderUpdate handed over last, or NoOrderUpdate
    \* ---- the placed order in the tracker and _request_order_status
    tracked_exchange_id,      \* the placed order's exchange_order_id; "" before
    tracked_state,            \* its state: "none", "OPEN", "CANCELED" or "FAILED"
    status_outcome,           \* the last status request: "none", "updated",
                              \* "IndexError", "not_found" or "IOError"
    not_found_count,          \* its process_order_not_found calls so far
    status_last,              \* the status the last status request obtained, or "none"
    order_failure_events,     \* client order ids of the order-failure events
    \* ---- _markets, _market and the operations that resolve the market
    markets_attr,             \* _markets of the class and of each instance
    market_attr,              \* _market of the class and of each instance
    task_pc,                  \* where each resolving operation stands
    task_market_id,           \* id[0]["id"] of its exchange-info request
    task_error,               \* the exception that ended it last, or "none"
    submit_order,             \* the order generate_typed_data was called for
    submit_params,            \* params["price"], params["amount"] as sent
    fetched_since_submit,     \* what was fetched since that call began
    submit_used,              \* fetched_since_submit when L411-412 read _market
    \* start_network / stop_network
    allowance_polling_task,   \* self._allowance_polling_task: 0 for None, or a task
    allowance_tasks,          \* the approve_allowance tasks ever created
    base_network_started,     \* the tasks of the host base class are running
    network_last              \* the last call: "none", "start" or "stop"

vars == <<current_timestamp, last_poll_timestamp, trading_pairs,
               active_orders, cached_orders, exchange_order_ids,
               current_trade_fills, poll_pc, order_by_exchange_id_map, polls,
               user_trades, poll_outcome, poll_listed, trade_requests, poll_handled, poll_updates,
               poll_events, trade_update_calls, order_filled_events,
               order_fills, fills_applied,
          place_pc, place_order_type, place_error, place_result, place_raised,
          typed_data_requests, order_posts, approve_calls,
          approve_input, approve_outcome, approvals_sent,
          cancel_pc, cancel_ids, cancel_error, cancel_response,
          cancel_returned, cancel_raised, cancel_signs, cancel_posts,
          not_found_calls, cancel_post_error, cancel_for_lost, lost_orders,
          canceled_update, cancelled_event,
          listener_pc, listener_handled, listener_last, listener_outcome,
          listener_exception, listener_errors, listener_backoffs, listener_raised,
          listener_cancels, listener_trade_updates, order_update_calls,
          listener_order_update,
          tracked_exchange_id, tracked_state, status_outcome, not_found_count,
          status_last, order_failure_events,
          markets_attr, market_attr, task_pc, task_market_id, task_error,
          submit_order, submit_params, fetched_since_submit, submit_used,
          allowance_polling_task, allowance_tasks, base_network_started,
          network_last>>

poll_vars == <<last_poll_timestamp, trading_pairs,
               active_orders, cached_orders, exchange_order_ids,
               current_trade_fills, poll_pc, order_by_exchange_id_map, polls,
               user_trades, poll_outcome, poll_listed, trade_requests, poll_handled, poll_updates,
               poll_events, trade_update_calls, order_filled_events,
               order_fills, fills_applied>>

place_vars == <<place_pc, place_order_type, place_error, place_result,
                place_raised, typed_data_requests, order_posts, approve_calls,
                approve_input, approve_outcome, approvals_sent>>

cancel_vars == <<cancel_pc, cancel_ids, cancel_error, cancel_response,
                 cancel_returned, cancel_raised, cancel_signs, cancel_posts,
                 not_found_calls, cancel_post_error, cancel_for_lost,
                 lost_orders, canceled_update, cancelled_event>>

listener_vars == <<listener_pc, listener_handled, listener_last,
                   listener_outcome, listener_exception, listener_errors, listener_backoffs,
                   listener_raised, listener_cancels, listener_trade_updates,
                   order_update_calls, listener_order_update>>

status_vars == <<tracked_exchange_id, tracked_state, status_outcome,
                 not_found_count, status_last, order_failure_events>>

market_vars == <<markets_attr, market_attr, task_pc, task_market_id,
                 task_error, submit_order, submit_params,
                 fetched_since_submit, submit_used>>

network_vars == <<allowance_polling_task, allowance_tasks,
                  base_network_started, network_last>>

\* -------------------------------------------------------- the order tracker
\* ClientOrderTracker.all_fillable_orders: active, cached (and lost) orders.
all_fillable_orders == active_orders \cup cached_orders

\* ExchangeBase.in_flight_orders is the tracker's active orders.
in_flight_orders == active_orders

\* ClientOrderTracker.process_trade_update with
\* InFlightOrder.update_with_trade_update, for the TradeUpdates of the
\* sequence updates from the i-th on: an update for an order that is not
\* fillable, or whose trade_id the order's order_fills already holds, is
\* ignored; any other is applied (and an OrderFilled event follows).
\* acc holds order_fills and the fills applied per order and trade id text.
RECURSIVE ProcessTradeUpdates(_, _, _, _)
ProcessTradeUpdates(updates, fillable, i, acc) ==
    IF i > Len(updates) THEN acc
    ELSE LET u == updates[i]
             key == <<u.exchange_order_id, u.trade_id>>
         IN  IF u.exchange_order_id \notin fillable \/ key \in acc.order_fills
             THEN ProcessTradeUpdates(updates, fillable, i + 1, acc)
             ELSE ProcessTradeUpdates(updates, fillable, i + 1,
                      [order_fills |-> acc.order_fills \cup {key},
                       applied |-> [acc.applied EXCEPT
                           ![<<u.exchange_order_id, u.trade_id.text>>] = @ + 1]])

\* ------------------------------------------------------------- _user_trades
\* A later trade of the same order.
SecondTradeOfOrder(x) ==
    IF x = "100234" THEN JsonNumber("28458") ELSE JsonNumber("30001")

\* The answers the per-order trade request may get for an order: an empty
\* list, the list of the order's trade or of its two trades, or the
\* exception safe_gather returns in its place.
FetchResults(order_id) ==
    {[exception |-> FALSE, ids |-> <<>>],
     [exception |-> FALSE, ids |-> <<TradeOfOrder(order_id)>>],
     [exception |-> FALSE, ids |-> <<TradeOfOrder(order_id), SecondTradeOfOrder(order_id)>>],
     [exception |-> TRUE, ids |-> <<>>]}

\* The trades of one answer, each tagged with the order id it was fetched for.
TagTrades(order_id, ids) ==
    [i \in 1..Len(ids) |-> TradeData(ids[i]) @@ [order_id |-> order_id]]

\* The loop over trades_results: the first trade of every non-empty answer.
RECURSIVE FirstTrades(_, _, _)
FirstTrades(order_ids, results, i) ==
    IF i > Len(order_ids) THEN <<>>
    ELSE LET rest == FirstTrades(order_ids, results, i + 1) IN
         IF Len(results[i].ids) > 0
         THEN <<TagTrades(order_ids[i], results[i].ids)[1]>> \o rest
         ELSE rest

\* _user_trades for an order listing and its per-order answers: the list it
\* returns, or "raised".  An answer that is an exception reaches
\* self.logger(...), a call of a classmethod with one argument too many, so
\* the TypeError leaves _user_trades.
UserTrades(order_ids, results) ==
    IF Len(order_ids) = 0 THEN [raised |-> FALSE, trades |-> <<>>]
    ELSE IF \E i \in 1..Len(results) : results[i].exception
    THEN [raised |-> TRUE, trades |-> <<>>]
    ELSE [raised |-> FALSE, trades |-> FirstTrades(order_ids, results, 1)]

\* ------------------------------------------- _update_order_fills_from_trades
\* a / d > b / d, where / is Python's true division of floats (not //):
\* the quotients are compared as fractions, by cross-multiplication.
TickGreater(a, b, d) == a * d > b * d

\* The guard of the poll.
PollGuard ==
    \/ TickGreater(current_timestamp, last_poll_timestamp, LONG_POLL_INTERVAL)
    \/ /\ in_flight_orders # {}
       /\ TickGreater(current_timestamp, last_poll_timestamp,
                      UPDATE_ORDER_STATUS_MIN_INTERVAL)

\* The filter on the fetched trades: when a poll has run before, only entries
\* whose timestamp is not before the wall clock, in milliseconds.
FilterTrades(trades) ==
    IF last_poll_timestamp > 0
    THEN SelectSeq(trades, LAMBDA e : e.timestamp >= current_timestamp * 1000)
    ELSE trades

\* TradeFillOrderDetails(market, exchange_trade_id, symbol); the market is
\* the connector's one display name.
TradeFillOrderDetails(exchange_trade_id, symbol) ==
    <<exchange_trade_id, symbol>>

\* ExchangeBase.is_confirmed_new_order_filled_event.
is_confirmed_new_order_filled_event(exchange_trade_id, exchange_order_id, trading_pair, fills) ==
    /\ TradeFillOrderDetails(exchange_trade_id, trading_pair) \notin fills
    /\ exchange_order_id \in exchange_order_ids

\* trade["symbol"].split('_')[0] (L752, L774): the base token of the trade's
\* own symbol.
FeeToken_Quote(symbol) == symbol[2]

FeeToken(symbol) == symbol[1]

\* flat_fees=[TokenAmount(amount=Decimal(0), token=symbol)] (L758,
\* L789-794): the fee of a fill, informational only.
FlatFees(trade) == <<[token |-> FeeToken(trade.symbol), amount |-> 0]>>

\* PollTradeUpdate with the trading pair of the round worked into trade_id.
PollTradeUpdate_PairInTradeId(trade, trading_pair) ==
    [trade_id |-> [json |-> "string", text |-> trade.id.text,
                   pair |-> trading_pair],
     client_order_id |-> ClientOrderId(trade.order_id),
     exchange_order_id |-> trade.order_id,
     trading_pair |-> trading_pair,
     flat_fees |-> FlatFees(trade),
     fill_base_amount |-> trade.amount,
     fill_quote_amount |-> trade.amount * trade.price,
     fill_price |-> trade.price]

\* The TradeUpdate the poll builds for a trade of a tracked order.
PollTradeUpdate(trade, trading_pair) ==
    [trade_id |-> trade.id,
     client_order_id |-> ClientOrderId(trade.order_id),
     exchange_order_id |-> trade.order_id,
     trading_pair |-> trading_pair,
     flat_fees |-> FlatFees(trade),
     fill_base_amount |-> trade.amount,
     fill_quote_amount |-> trade.amount * trade.price,
     fill_price |-> trade.price]

\* L773, the elif of the loop: a trade of an order that is not tracked is
\* backfilled when is_confirmed_new_order_filled_event says so.
IsBackfill_EveryUntracked(trade, trading_pair, fills) == TRUE

IsBackfill(trade, trading_pair, fills) ==
    is_confirmed_new_order_filled_event(Str(trade.id), trade.order_id, trading_pair, fills)

\* The key _current_trade_fills gets for a backfilled trade.
BackfillKey(trade, trading_pair) ==
    TradeFillOrderDetails(trade.id, trading_pair)

\* The OrderFilledEvent the poll triggers for a recorded, untracked order.
BackfillEvent(trade, trading_pair) ==
    [order_id |-> IF trade.order_id \in exchange_order_ids
                  THEN ClientOrderId(trade.order_id) ELSE "None",
     trading_pair |-> trading_pair,
     price |-> trade.price,
     amount |-> trade.amount,
     flat_fees |-> FlatFees(trade),
     exchange_trade_id |-> Str(trade.id)]

\* How many trades the loop "for trade, trading_pair in zip(trades,
\* trading_pairs)" runs for.
ZipLen(trades, pairs) == IF Len(trades) < Len(pairs) THEN Len(trades) ELSE Len(pairs)

\* The loop, from its i-th round on: acc holds the trade fills, the
\* TradeUpdates and the events so far.
RECURSIVE ProcessTrades(_, _, _, _, _)
ProcessTrades(trades, pairs, map, i, acc) ==
    IF i > ZipLen(trades, pairs) THEN acc
    ELSE LET trade == trades[i]
             pair == pairs[i]
         IN  IF trade.order_id \in map
             THEN ProcessTrades(trades, pairs, map, i + 1,
                      [acc EXCEPT !.updates = Append(@, PollTradeUpdate(trade, pair))])
             ELSE IF IsBackfill(trade, pair, acc.fills)
             THEN ProcessTrades(trades, pairs, map, i + 1,
                      [acc EXCEPT !.fills = @ \cup {BackfillKey(trade, pair)},
                                  !.events = Append(@, BackfillEvent(trade, pair))])
             ELSE ProcessTrades(trades, pairs, map, i + 1, acc)

\* counts with one added for every element of the sequence of keys s.
RECURSIVE CountInto(_, _)
CountInto(counts, s) ==
    IF s = <<>> THEN counts
    ELSE CountInto([counts EXCEPT ![Head(s)] = @ + 1], Tail(s))

TradeTexts == {id.text : id \in TradeIds}

InitPoll ==
    /\ current_timestamp = 1
    /\ last_poll_timestamp = 0
    /\ trading_pairs \in {SubSeq(AllPairs, 1, n) : n \in 1..MaxPairs}
    /\ active_orders = {}
    /\ cached_orders = {}
    /\ exchange_order_ids = RecordedIds
    /\ current_trade_fills = {}
    /\ poll_pc = "idle"
    /\ order_by_exchange_id_map = {}
    /\ polls = 0
    /\ user_trades = <<>>
    /\ poll_outcome = "none"
    /\ poll_listed = FALSE
    /\ trade_requests = <<>>
    /\ poll_handled = 0
    /\ poll_updates = <<>>
    /\ poll_events = <<>>
    /\ trade_update_calls = [t \in TradeTexts |-> 0]
    /\ order_filled_events = [t \in TradeTexts |-> 0]
    /\ order_fills = {}
    /\ fills_applied = [k \in ExOrderIds \X TradeTexts |-> 0]

\* The clock advances.
Tick ==
    /\ current_timestamp < MaxTime
    /\ current_timestamp' = current_timestamp + 1
    /\ UNCHANGED <<last_poll_timestamp, trading_pairs, active_orders,
                   cached_orders, exchange_order_ids, current_trade_fills,
                   poll_pc, order_by_exchange_id_map, polls, user_trades,
                   poll_outcome, poll_listed, trade_requests, poll_handled, poll_updates, poll_events,
                   trade_update_calls, order_filled_events,
                   order_fills, fills_applied>>
    /\ UNCHANGED <<place_vars, cancel_vars, listener_vars, status_vars, market_vars, network_vars>>

\* ClientOrderTracker.start_tracking_order: an order becomes in flight.
StartTracking(x) ==
    /\ x \notin all_fillable_orders
    /\ active_orders' = active_orders \cup {x}
    /\ UNCHANGED <<current_timestamp, last_poll_timestamp, trading_pairs,
                   cached_orders, exchange_order_ids, current_trade_fills,
                   poll_pc, order_by_exchange_id_map, polls, user_trades,
                   poll_outcome, poll_listed, trade_requests, poll_handled, poll_updates, poll_events,
                   trade_update_calls, order_filled_events,
                   order_fills, fills_applied>>
    /\ UNCHANGED <<place_vars, cancel_vars, listener_vars, status_vars, market_vars, network_vars>>

\* ClientOrderTracker.stop_tracking_order: a finished order leaves the
\* in-flight orders and stays fillable in the cache.
StopTracking(x) ==
    /\ x \in active_orders
    /\ active_orders' = active_orders \ {x}
    /\ cached_orders' = cached_orders \cup {x}
    /\ UNCHANGED <<current_timestamp, last_poll_timestamp, trading_pairs,
                   exchange_order_ids, current_trade_fills,
                   poll_pc, order_by_exchange_id_map, polls, user_trades,
                   poll_outcome, poll_listed, trade_requests, poll_handled, poll_updates, poll_events,
                   trade_update_calls, order_filled_events,
                   order_fills, fills_applied>>
    /\ UNCHANGED <<place_vars, cancel_vars, listener_vars, status_vars, market_vars, network_vars>>

\* The cache entry of a finished order expires: the order leaves the
\* fillable orders.
CacheExpire(x) ==
    /\ x \in cached_orders
    /\ cached_orders' = cached_orders \ {x}
    /\ UNCHANGED <<current_timestamp, last_poll_timestamp, trading_pairs,
                   active_orders, exchange_order_ids, current_trade_fills,
                   poll_pc, order_by_exchange_id_map, polls, user_trades,
                   poll_outcome, poll_listed, trade_requests, poll_handled, poll_updates, poll_events,
                   trade_update_calls, order_filled_events,
                   order_fills, fills_applied>>
    /\ UNCHANGED <<place_vars, cancel_vars, listener_vars, status_vars, market_vars, network_vars>>

\* _update_order_fills_from_trades with the guard false: nothing is done, and
\* the status loop records the poll time.
PollSkip ==
    /\ poll_pc = "idle"
    /\ ~PollGuard
    /\ last_poll_timestamp' = current_timestamp
    /\ UNCHANGED <<current_timestamp, trading_pairs, active_orders,
                   cached_orders, exchange_order_ids, current_trade_fills,
                   poll_pc, order_by_exchange_id_map, polls, user_trades,
                   poll_outcome, poll_listed, trade_requests, poll_handled, poll_updates, poll_events,
                   trade_update_calls, order_filled_events,
                   order_fills, fills_applied>>
    /\ UNCHANGED <<place_vars, cancel_vars, listener_vars, status_vars, market_vars, network_vars>>

\* _update_order_fills_from_trades up to "await self._user_trades()".
PollStart ==
    /\ poll_pc = "idle"
    /\ polls < MaxPolls
    /\ PollGuard
    /\ poll_pc' = "fetching"
    /\ polls' = polls + 1
    /\ order_by_exchange_id_map' = all_fillable_orders
    /\ user_trades' = <<>>
    /\ poll_outcome' = "none"
    /\ poll_listed' = FALSE
    /\ trade_requests' = <<>>
    /\ poll_handled' = 0
    /\ poll_updates' = <<>>
    /\ poll_events' = <<>>
    /\ UNCHANGED <<current_timestamp, last_poll_timestamp, trading_pairs,
                   active_orders, cached_orders, exchange_order_ids,
                   current_trade_fills, trade_update_calls,
                   order_filled_events, order_fills, fills_applied>>
    /\ UNCHANGED <<place_vars, cancel_vars, listener_vars, status_vars, market_vars, network_vars>>

\* L661-679 of _user_trades: the order listing is answered and one trade
\* request per listed order id is made; safe_gather runs them concurrently.
TradeRequests(order_ids) ==
    [i \in 1..Len(order_ids) |->
        [order_id |-> order_ids[i], done |-> FALSE, exception |-> FALSE, ids |-> <<>>]]

RequestedIds(requests) == [i \in 1..Len(requests) |-> requests[i].order_id]

\* L679: "await safe_gather(*tasks, return_exceptions=True)" returns when
\* every request has been answered or has raised.
AllAnswered_FirstOnly(requests) == IF Len(requests) = 0 THEN TRUE ELSE requests[1].done

AllAnswered(requests) == \A i \in 1..Len(requests) : requests[i].done

PollListing(order_ids) ==
    /\ poll_pc = "fetching"
    /\ ~poll_listed
    /\ poll_listed' = TRUE
    /\ trade_requests' = TradeRequests(order_ids)
    /\ UNCHANGED <<current_timestamp, last_poll_timestamp, trading_pairs,
                   active_orders, cached_orders, exchange_order_ids,
                   current_trade_fills, poll_pc, order_by_exchange_id_map,
                   polls, user_trades, poll_outcome, poll_handled,
                   poll_updates, poll_events, trade_update_calls,
                   order_filled_events, order_fills, fills_applied>>
    /\ UNCHANGED <<place_vars, cancel_vars, listener_vars, status_vars, market_vars, network_vars>>

\* One of the trade requests is answered, or raises, in any order.
TradeAnswer(i, result) ==
    /\ poll_pc = "fetching"
    /\ poll_listed
    /\ i \in 1..Len(trade_requests)
    /\ ~trade_requests[i].done
    /\ result \in FetchResults(trade_requests[i].order_id)
    /\ trade_requests' =
           [trade_requests EXCEPT ![i] =
               [order_id |-> @.order_id, done |-> TRUE,
                exception |-> result.exception, ids |-> result.ids]]
    /\ UNCHANGED <<current_timestamp, last_poll_timestamp, trading_pairs,
                   active_orders, cached_orders, exchange_order_ids,
                   current_trade_fills, poll_pc, order_by_exchange_id_map,
                   polls, user_trades, poll_outcome, poll_listed, poll_handled,
                   poll_updates, poll_events, trade_update_calls,
                   order_filled_events, order_fills, fills_applied>>
    /\ UNCHANGED <<place_vars, cancel_vars, listener_vars, status_vars, market_vars, network_vars>>

\* _user_trades raises (the order listing fails, or a per-order answer is an
\* exception): the poll ends with that exception and the status loop does not
\* record the poll time.
PollRaise ==
    /\ poll_pc = "fetching"
    /\ poll_listed
    /\ AllAnswered(trade_requests)
    /\ UserTrades(RequestedIds(trade_requests), trade_requests).raised
    /\ poll_pc' = "idle"
    /\ poll_outcome' = "raised"
    /\ poll_listed' = FALSE
    /\ trade_requests' = <<>>
    /\ UNCHANGED <<order_by_exchange_id_map, current_timestamp, last_poll_timestamp, trading_pairs,
                   active_orders, cached_orders, exchange_order_ids,
                   current_trade_fills, polls, user_trades, poll_handled,
                   poll_updates, poll_events, trade_update_calls,
                   order_filled_events, order_fills, fills_applied>>
    /\ UNCHANGED <<place_vars, cancel_vars, listener_vars, status_vars, market_vars, network_vars>>

\* _update_order_fills_from_trades from the return of _user_trades to its
\* end, then the status loop's "_last_poll_timestamp = current_timestamp",
\* which is reached when the rest of the loop's round does not raise.
PollResume(loop_ok) ==
    /\ poll_pc = "fetching"
    /\ poll_listed
    /\ AllAnswered(trade_requests)
    /\ ~UserTrades(RequestedIds(trade_requests), trade_requests).raised
    /\ poll_listed' = FALSE
    /\ trade_requests' = <<>>
    /\ LET fetched == UserTrades(RequestedIds(trade_requests), trade_requests).trades
           trades == FilterTrades(fetched)
           done == ProcessTrades(trades, trading_pairs,
                                 order_by_exchange_id_map, 1,
                                 [fills |-> current_trade_fills,
                                  updates |-> <<>>, events |-> <<>>])
           tracker == ProcessTradeUpdates(done.updates, all_fillable_orders, 1,
                                          [order_fills |-> order_fills,
                                           applied |-> fills_applied])
       IN  /\ user_trades' = fetched
           /\ order_fills' = tracker.order_fills
           /\ fills_applied' = tracker.applied
           /\ poll_handled' = ZipLen(trades, trading_pairs)
           /\ poll_updates' = done.updates
           /\ poll_events' = done.events
           /\ current_trade_fills' = done.fills
           /\ trade_update_calls' =
                  CountInto(trade_update_calls,
                            [i \in 1..Len(done.updates) |->
                                 done.updates[i].trade_id.text])
           /\ order_filled_events' =
                  CountInto(order_filled_events,
                            [i \in 1..Len(done.events) |->
                                 done.events[i].exchange_trade_id.text])
    /\ poll_pc' = "idle"
    /\ poll_outcome' = "done"
    /\ last_poll_timestamp' =
           IF loop_ok THEN current_timestamp ELSE last_poll_timestamp
    /\ UNCHANGED <<current_timestamp, trading_pairs, active_orders,
                   cached_orders, exchange_order_ids, polls,
                   order_by_exchange_id_map>>
    /\ UNCHANGED <<place_vars, cancel_vars, listener_vars, status_vars, market_vars, network_vars>>

\* _user_stream_event_listener for one trade-create or trade-update message:
\* "self._process_trade_message(results)" calls an async def without await,
\* so a coroutine object is made and dropped and its body never runs: no
\* lookup, no TradeUpdate.
ListenerTradeMessage(id) ==
    /\ id \in TradeIds
    /\ UNCHANGED <<current_timestamp, poll_vars, place_vars, cancel_vars, listener_vars, status_vars, market_vars, network_vars>>

\* The answers of the exchange to one poll: the order listing and one answer
\* per listed order.
Listings == DistinctSeqs(ExOrderIds, Cardinality(ExOrderIds))

NextPoll ==
    \/ Tick
    \/ \E x \in TrackableIds : StartTracking(x)
    \/ \E x \in TrackableIds : StopTracking(x)
    \/ \E x \in TrackableIds : CacheExpire(x)
    \/ \E id \in TradeIds : ListenerTradeMessage(id)
    \/ PollSkip
    \/ PollStart
    \/ \E order_ids \in Listings : PollListing(order_ids)
    \/ \E i \in 1..Cardinality(ExOrderIds) :
           \E result \in UNION {FetchResults(x) : x \in ExOrderIds} :
               TradeAnswer(i, result)
    \/ PollRaise
    \/ \E loop_ok \in BOOLEAN : PollResume(loop_ok)

\* ------------------------------------------------------------- _api_request
\* The message bodies of the failed requests of these runs; a body carries
\* one message.
OVERLOAD_MESSAGE == "Unknown error, please check your request or try again later."
ErrorBodies == {OVERLOAD_MESSAGE, "insufficient allowance",
                "Orders not found", "Service Unavailable."}

\* The exceptions a request may raise: the IOError _api_request raises for an
\* HTTP error, "Error executing request ... HTTP status is <status>. Error:
\* <body>", or an exception of another class, which has no status or body.
NoError == [class |-> "none", status |-> 0, body |-> ""]
RequestErrors ==
    {[class |-> "IOError", status |-> st, body |-> b] :
        st \in {400, 503}, b \in ErrorBodies}
        \cup {[class |-> "TimeoutError", status |-> 0, body |-> ""]}

\* text in str(e), for the texts the code looks for.
InDescription(text, e) ==
    IF text = "status is 503" THEN e.status = 503 ELSE e.body = text

\* ------------------------------------------------------------- _place_order
NoResult == [o_id |-> "", transact_time |-> 0]
OrderTypes == {"LIMIT", "LIMIT_MAKER", "MARKET"}

\* L161-162: the order types the connector declares as supported.
supported_order_types == {"LIMIT", "MARKET"}

\* The order ids and timestamps (milliseconds) of a successful order POST.
OrderPostData ==
    {[order_id |-> JsonNumber("100234"), timestamp |-> ms] : ms \in {1000, 2000}}

insufficient_allowance(e) == InDescription("insufficient allowance", e)

\* is_server_overloaded without the test of the message.
is_server_overloaded_StatusOnly(e) == InDescription("status is 503", e)

is_server_overloaded(e) ==
    /\ InDescription("status is 503", e)
    /\ InDescription(OVERLOAD_MESSAGE, e)

\* The exceptions other than the POST's that leave _place_order.
MarketError == [class |-> "Exception", status |-> 0, body |-> "market"]
TypedDataError == [class |-> "IOError", status |-> 0, body |-> "Error submitting order"]
NoTypedDataError == [class |-> "TypeError", status |-> 0, body |-> ""]
ApproveError == [class |-> "AttributeError", status |-> 0, body |-> ""]

\* approve_allowance, by what happens in it: a request before the loop over
\* the tokens raises; or there is no token and the loop is not entered; or
\* the approval of the first token raises and the handler's
\* "self.logger.error(...)", an attribute of a method, raises AttributeError;
\* or the first token's receipt is returned.
ApproveAllowance(request_fails, tx_fails) ==
    IF request_fails THEN "raised"
    ELSE IF Len(trading_pairs) = 0 THEN "None"
    ELSE IF tx_fails THEN "raised"
    ELSE "receipt"

\* L278-283: the base and the quote token of every trading pair, in order.
token_list ==
    [i \in 1..(2 * Len(trading_pairs)) |->
        exchange_symbol_associated_to_pair(trading_pairs[(i + 1) \div 2])[2 - (i % 2)]]

NoApproveInput == [request_fails |-> FALSE, tx_fails |-> FALSE]

\* The tokens one approve_allowance run sends an approval for: "return
\* txn_receipt" (L335) stands in the body of "for token in token_list", so
\* the run ends in the loop's first round, with the first token's receipt.
ApprovalsSent(request_fails, tx_fails) ==
    IF ApproveAllowance(request_fails, tx_fails) = "receipt"
    THEN SubSeq(token_list, 1, 1)
    ELSE <<>>

InitPlace ==
    /\ place_pc = "idle"
    /\ place_order_type = "LIMIT"
    /\ place_error = NoError
    /\ place_result = NoResult
    /\ place_raised = NoError
    /\ typed_data_requests = 0
    /\ order_posts = 0
    /\ approve_calls = 0
    /\ approve_input = NoApproveInput
    /\ approve_outcome = "none"
    /\ approvals_sent = <<>>

\* _place_order is called: up to the typed-data request of
\* generate_typed_data.
PlaceStart(order_type) ==
    /\ place_pc \in {"idle", "returned", "raised"}
    /\ place_pc' = "typed_data"
    /\ place_order_type' = order_type
    /\ place_error' = NoError
    /\ place_result' = NoResult
    /\ place_raised' = NoError
    /\ typed_data_requests' = 0
    /\ order_posts' = 0
    /\ approve_calls' = 0
    /\ approve_input' = NoApproveInput
    /\ approve_outcome' = "none"
    /\ approvals_sent' = <<>>
    /\ UNCHANGED <<current_timestamp, poll_vars, cancel_vars, listener_vars, status_vars, market_vars, network_vars>>

\* A _place_order that sends the POST although the typed-data request failed.
PlaceTypedData_PostsAnyway(market_ok, request_ok) ==
    /\ place_pc = "typed_data"
    /\ IF ~market_ok
       THEN /\ place_pc' = "raised"
            /\ place_raised' = MarketError
            /\ UNCHANGED <<typed_data_requests, order_posts>>
       ELSE IF place_order_type \notin {"LIMIT", "LIMIT_MAKER"}
       THEN /\ place_pc' = "raised"
            /\ place_raised' = NoTypedDataError
            /\ UNCHANGED <<typed_data_requests, order_posts>>
       ELSE IF ~request_ok
       THEN /\ place_pc' = "raised"
            /\ place_raised' = TypedDataError
            /\ typed_data_requests' = typed_data_requests + 1
            /\ order_posts' = order_posts + 1
       ELSE /\ place_pc' = "posting"
            /\ place_raised' = NoError
            /\ typed_data_requests' = typed_data_requests + 1
            /\ order_posts' = order_posts + 1
    /\ UNCHANGED <<place_order_type, place_error, place_result, approve_calls>>
    /\ UNCHANGED <<approve_input, approve_outcome, approvals_sent>>
    /\ UNCHANGED <<current_timestamp, poll_vars, cancel_vars, listener_vars, status_vars, market_vars, network_vars>>

\* generate_typed_data ends and _place_order signs and sends the order POST.
\* Market resolution may raise; for an order type that is neither LIMIT nor
\* LIMIT_MAKER no request is made and None comes back, on which
\* transaction_data["sign_data"] raises TypeError; the typed-data request may
\* raise IOError, which is raised again as IOError("Error submitting order").
PlaceTypedData(market_ok, request_ok) ==
    /\ place_pc = "typed_data"
    /\ IF ~market_ok
       THEN /\ place_pc' = "raised"
            /\ place_raised' = MarketError
            /\ UNCHANGED <<typed_data_requests, order_posts>>
       ELSE IF place_order_type \notin {"LIMIT", "LIMIT_MAKER"}
       THEN /\ place_pc' = "raised"
            /\ place_raised' = NoTypedDataError
            /\ UNCHANGED <<typed_data_requests, order_posts>>
       ELSE IF ~request_ok
       THEN /\ place_pc' = "raised"
            /\ place_raised' = TypedDataError
            /\ typed_data_requests' = typed_data_requests + 1
            /\ UNCHANGED order_posts
       ELSE /\ place_pc' = "posting"
            /\ place_raised' = NoError
            /\ typed_data_requests' = typed_data_requests + 1
            /\ order_posts' = order_posts + 1
    /\ UNCHANGED <<place_order_type, place_error, place_result, approve_calls>>
    /\ UNCHANGED <<approve_input, approve_outcome, approvals_sent>>
    /\ UNCHANGED <<current_timestamp, poll_vars, cancel_vars, listener_vars, status_vars, market_vars, network_vars>>

\* The order POST succeeds: the else branch of the try.
PlacePostOk(data) ==
    /\ place_pc = "posting"
    /\ place_pc' = "returned"
    /\ place_result' = [o_id |-> Str(data.order_id).text,
                        transact_time |-> data.timestamp \div 1000]
    /\ UNCHANGED <<place_order_type, place_error, place_raised,
                   typed_data_requests, order_posts, approve_calls>>
    /\ UNCHANGED <<approve_input, approve_outcome, approvals_sent>>
    /\ UNCHANGED <<current_timestamp, poll_vars, cancel_vars, listener_vars, status_vars, market_vars, network_vars>>

\* What the handler "except IOError as e" does once approve_allowance, if it
\* was called, has returned.
PlaceHandlerEnd(e) ==
    IF is_server_overloaded(e)
    THEN [pc |-> "returned",
          result |-> [o_id |-> "Unknown",
                      transact_time |-> current_timestamp * 1000],
          raised |-> NoError]
    ELSE [pc |-> "raised", result |-> NoResult, raised |-> e]

\* The order POST raises e.  An exception that is no IOError leaves
\* _place_order as it is; for an IOError with "insufficient allowance" the
\* handler awaits approve_allowance; any other IOError goes to the handler's
\* end.
PlacePostFails(e) ==
    /\ place_pc = "posting"
    /\ place_error' = e
    /\ IF e.class # "IOError"
       THEN /\ place_pc' = "raised"
            /\ place_raised' = e
            /\ UNCHANGED <<place_result, approve_calls>>
       ELSE IF insufficient_allowance(e)
       THEN /\ place_pc' = "approving"
            /\ approve_calls' = approve_calls + 1
            /\ UNCHANGED <<place_result, place_raised>>
       ELSE /\ place_pc' = PlaceHandlerEnd(e).pc
            /\ place_result' = PlaceHandlerEnd(e).result
            /\ place_raised' = PlaceHandlerEnd(e).raised
            /\ UNCHANGED approve_calls
    /\ UNCHANGED <<place_order_type, typed_data_requests, order_posts>>
    /\ UNCHANGED <<approve_input, approve_outcome, approvals_sent>>
    /\ UNCHANGED <<current_timestamp, poll_vars, cancel_vars, listener_vars, status_vars, market_vars, network_vars>>

\* approve_allowance ends: its exception leaves _place_order in place of the
\* POST's; when it returns, the handler goes on to its end.
PlaceApproved(request_fails, tx_fails) ==
    /\ place_pc = "approving"
    /\ IF ApproveAllowance(request_fails, tx_fails) = "raised"
       THEN /\ place_pc' = "raised"
            /\ place_raised' = ApproveError
            /\ UNCHANGED place_result
       ELSE /\ place_pc' = PlaceHandlerEnd(place_error).pc
            /\ place_result' = PlaceHandlerEnd(place_error).result
            /\ place_raised' = PlaceHandlerEnd(place_error).raised
    /\ approve_input' = [request_fails |-> request_fails, tx_fails |-> tx_fails]
    /\ approve_outcome' = ApproveAllowance(request_fails, tx_fails)
    /\ approvals_sent' = ApprovalsSent(request_fails, tx_fails)
    /\ UNCHANGED <<place_order_type, place_error, typed_data_requests,
                   order_posts, approve_calls>>
    /\ UNCHANGED <<current_timestamp, poll_vars, cancel_vars, listener_vars, status_vars, market_vars, network_vars>>

NextPlace ==
    \/ Tick
    \/ \E order_type \in OrderTypes : PlaceStart(order_type)
    \/ \E market_ok, request_ok \in BOOLEAN : PlaceTypedData(market_ok, request_ok)
    \/ \E data \in OrderPostData : PlacePostOk(data)
    \/ \E e \in RequestErrors : PlacePostFails(e)
    \/ \E request_fails, tx_fails \in BOOLEAN : PlaceApproved(request_fails, tx_fails)

\* ------------------------------------------------------------ _place_cancel
\* The lists of cancelled order ids a cancel POST may answer with.
CancelResponses == SeqsUpTo(ExOrderIds, MaxCancelled)

\* is_not_active that never holds.
is_not_active_Never(e) == FALSE

is_not_active(e) == InDescription("Orders not found", e)

IndexError == [class |-> "IndexError", status |-> 0, body |-> ""]

InitCancel ==
    /\ cancel_pc = "idle"
    /\ cancel_ids = <<>>
    /\ cancel_error = NoError
    /\ cancel_response = <<>>
    /\ cancel_returned = "nothing"
    /\ cancel_raised = NoError
    /\ cancel_signs = 0
    /\ cancel_posts = 0
    /\ not_found_calls = 0
    /\ cancel_post_error = NoError
    /\ cancel_for_lost = FALSE
    /\ lost_orders = {}
    /\ canceled_update = FALSE
    /\ cancelled_event = FALSE

\* ExchangePyBase._execute_order_cancel_and_process_update, after
\* _place_cancel has ended: when it returned True a CANCELED OrderUpdate
\* (is_cancel_request_in_exchange_synchronous, L154-155) is handed to the
\* tracker, which emits the order-cancelled event and drops the order, also
\* from its lost orders; any other result, and an exception, change nothing.
ProcessCancelResult(returned) ==
    /\ canceled_update' = (returned = "True")
    /\ cancelled_event' = (returned = "True")
    /\ lost_orders' = IF returned = "True" THEN lost_orders \ {cancel_ids[1]} ELSE lost_orders

\* ClientOrderTracker: an order that was not found too often becomes a lost
\* order, which _cancel_lost_orders then tries to cancel.
OrderLost(ex_oid) ==
    /\ cancel_pc \in {"idle", "returned", "raised"}
    /\ ex_oid \notin lost_orders
    /\ lost_orders' = lost_orders \cup {ex_oid}
    /\ UNCHANGED <<cancel_pc, cancel_ids, cancel_error, cancel_response,
                   cancel_returned, cancel_raised, cancel_signs, cancel_posts,
                   not_found_calls, cancel_post_error, cancel_for_lost,
                   canceled_update, cancelled_event>>
    /\ UNCHANGED <<current_timestamp, poll_vars, place_vars, listener_vars, status_vars, market_vars, network_vars>>

\* _place_cancel is called for a tracked order: up to the typed-data request
\* of generate_cancel_order_typed_data.
CancelStart(ex_oid) ==
    /\ cancel_pc \in {"idle", "returned", "raised"}
    /\ cancel_pc' = "typed_data"
    /\ cancel_ids' = <<ex_oid>>
    /\ cancel_error' = NoError
    /\ cancel_response' = <<>>
    /\ cancel_returned' = "nothing"
    /\ cancel_raised' = NoError
    /\ cancel_signs' = 0
    /\ cancel_posts' = 0
    /\ not_found_calls' = 0
    /\ cancel_post_error' = NoError
    /\ cancel_for_lost' = (ex_oid \in lost_orders)
    /\ canceled_update' = FALSE
    /\ cancelled_event' = FALSE
    /\ UNCHANGED lost_orders
    /\ UNCHANGED <<current_timestamp, poll_vars, place_vars, listener_vars, status_vars, market_vars, network_vars>>

\* The typed-data request succeeds: the payload is signed, the signature is
\* not None and the cancel POST is sent.
CancelTypedDataOk ==
    /\ cancel_pc = "typed_data"
    /\ cancel_pc' = "posting"
    /\ cancel_signs' = cancel_signs + 1
    /\ cancel_posts' = cancel_posts + 1
    /\ UNCHANGED <<cancel_ids, cancel_error, cancel_response, cancel_returned,
                   cancel_raised, not_found_calls>>
    /\ UNCHANGED <<cancel_post_error, cancel_for_lost, lost_orders,
                   canceled_update, cancelled_event>>
    /\ UNCHANGED <<current_timestamp, poll_vars, place_vars, listener_vars, status_vars, market_vars, network_vars>>

\* A generate_cancel_order_typed_data that swallows every IOError of the
\* typed-data request.
CancelTypedDataFails_AllNotFound(e) ==
    /\ cancel_pc = "typed_data"
    /\ cancel_error' = e
    /\ IF e.class = "IOError"
       THEN /\ cancel_pc' = "returned"
            /\ cancel_returned' = "None"
            /\ not_found_calls' = not_found_calls + 1
            /\ UNCHANGED cancel_raised
       ELSE /\ cancel_pc' = "raised"
            /\ cancel_raised' = e
            /\ UNCHANGED <<cancel_returned, not_found_calls>>
    /\ ProcessCancelResult(cancel_returned')
    /\ UNCHANGED <<cancel_ids, cancel_response, cancel_signs, cancel_posts>>
    /\ UNCHANGED <<cancel_post_error, cancel_for_lost>>
    /\ UNCHANGED <<current_timestamp, poll_vars, place_vars, listener_vars, status_vars, market_vars, network_vars>>

\* The typed-data request raises e.  An IOError with "Orders not found" is
\* logged and generate_cancel_order_typed_data returns None: _place_cancel
\* skips the POST, calls process_order_not_found and returns None.  Any other
\* exception leaves _place_cancel.
CancelTypedDataFails(e) ==
    /\ cancel_pc = "typed_data"
    /\ cancel_error' = e
    /\ IF e.class = "IOError" /\ is_not_active(e)
       THEN /\ cancel_pc' = "returned"
            /\ cancel_returned' = "None"
            /\ not_found_calls' = not_found_calls + 1
            /\ UNCHANGED cancel_raised
       ELSE /\ cancel_pc' = "raised"
            /\ cancel_raised' = e
            /\ UNCHANGED <<cancel_returned, not_found_calls>>
    /\ ProcessCancelResult(cancel_returned')
    /\ UNCHANGED <<cancel_ids, cancel_response, cancel_signs, cancel_posts>>
    /\ UNCHANGED <<cancel_post_error, cancel_for_lost>>
    /\ UNCHANGED <<current_timestamp, poll_vars, place_vars, listener_vars, status_vars, market_vars, network_vars>>

\* The result of _place_cancel for the answer of the cancel POST:
\* cancelled_order_ids[0] compared with ids[0]; on an empty list the index
\* raises IndexError.
CancelResult(ids, cancelled_order_ids) ==
    IF Len(cancelled_order_ids) = 0 THEN "IndexError"
    ELSE IF cancelled_order_ids[1] = ids[1] THEN "True"
    ELSE "False"

\* The cancel POST is answered with a list of cancelled order ids.
CancelPostOk(cancelled_order_ids) ==
    /\ cancel_pc = "posting"
    /\ cancel_response' = cancelled_order_ids
    /\ IF CancelResult(cancel_ids, cancelled_order_ids) = "IndexError"
       THEN /\ cancel_pc' = "raised"
            /\ cancel_raised' = IndexError
            /\ UNCHANGED cancel_returned
       ELSE /\ cancel_pc' = "returned"
            /\ cancel_returned' = CancelResult(cancel_ids, cancelled_order_ids)
            /\ UNCHANGED cancel_raised
    /\ ProcessCancelResult(cancel_returned')
    /\ UNCHANGED <<cancel_ids, cancel_error, cancel_signs, cancel_posts,
                   not_found_calls>>
    /\ UNCHANGED <<cancel_post_error, cancel_for_lost>>
    /\ UNCHANGED <<current_timestamp, poll_vars, place_vars, listener_vars, status_vars, market_vars, network_vars>>

\* L474-479: the await of the cancel POST stands in no try, so an exception
\* of the request leaves _place_cancel.
CancelPostRaises_ReturnsTrue(e) ==
    [pc |-> "returned", returned |-> "True", raised |-> NoError]

CancelPostRaises(e) ==
    [pc |-> "raised", returned |-> "nothing", raised |-> e]

\* The cancel POST raises: the exception leaves _place_cancel.
CancelPostFails(e) ==
    /\ cancel_pc = "posting"
    /\ cancel_post_error' = e
    /\ cancel_pc' = CancelPostRaises(e).pc
    /\ cancel_returned' = CancelPostRaises(e).returned
    /\ cancel_raised' = CancelPostRaises(e).raised
    /\ ProcessCancelResult(cancel_returned')
    /\ UNCHANGED <<cancel_ids, cancel_error, cancel_response,
                   cancel_signs, cancel_posts, not_found_calls, cancel_for_lost>>
    /\ UNCHANGED <<current_timestamp, poll_vars, place_vars, listener_vars, status_vars, market_vars, network_vars>>

NextCancel ==
    \/ \E ex_oid \in ExOrderIds : CancelStart(ex_oid)
    \/ CancelTypedDataOk
    \/ \E e \in RequestErrors : CancelTypedDataFails(e)
    \/ \E ids \in CancelResponses : CancelPostOk(ids)
    \/ \E e \in RequestErrors : CancelPostFails(e)
    \/ \E ex_oid \in ExOrderIds : OrderLost(ex_oid)

\* ------------------------------------------------ _user_stream_event_listener
\* CONSTANTS.USER_METHODS: the recognized actions, by their keys.
user_channels ==
    {"TRADES_CREATE", "TRADES_UPDATE", "ORDER_SUBMITTED", "ORDER_TRADE_PROCESSED"}

\* CONSTANTS.ORDER_STATE: the order state of an event status.
ORDER_STATE == [s \in {"open", "cancelled", "failed"} |->
                    CASE s = "open" -> "OPEN"
                      [] s = "cancelled" -> "CANCELED"
                      [] OTHER -> "FAILED"]

\* The states in which the tracker takes an order out of the in-flight orders.
DoneStates == {"CANCELED", "FAILED", "FILLED"}

NoMessage == [kind |-> "none"]
NoOrderUpdate == [client_order_id |-> "", exchange_order_id |-> "",
                  new_state |-> ""]

\* The "data" of an order event: the order id, the status, and whether the
\* event carries the key "time" (the events of the repository's tests carry
\* "timestamp" and no "time").
OrderEventData ==
    [order_id : {JsonString(x) : x \in ExOrderIds} \cup {JsonNumber("100234")},
     status : {"open", "cancelled", "bogus"},
     has_time : BOOLEAN]

\* The messages of the user-stream queue: a message that is no mapping, or a
\* mapping with its "action", with or without the key "code", and its "data".
UserStreamMessages ==
    {[kind |-> "malformed"]}
    \cup {[kind |-> "event", action |-> a, has_code |-> c, id |-> id] :
              a \in {"TRADES_CREATE", "TRADES_UPDATE"}, c \in BOOLEAN,
              id \in TradeIds}
    \cup {[kind |-> "event", action |-> a, has_code |-> c, data |-> d] :
              a \in {"ORDER_SUBMITTED", "ORDER_TRADE_PROCESSED"},
              c \in {FALSE}, d \in OrderEventData}
    \cup {[kind |-> "event", action |-> "unrecognized", has_code |-> c] :
              c \in BOOLEAN}

\* The exceptions a call into the order tracker may raise, or "none".
TrackerExceptions == {"none", "Exception", "CancelledError"}

\* The listener drops a message that has no key "code" and whose action is
\* none of the recognized ones.
IsUnexpected_Never(msg) == FALSE

IsUnexpected(msg) == ~msg.has_code /\ msg.action \notin user_channels

\* _create_order_update_with_order_status_data.
OrderUpdateOf(data, order) ==
    [client_order_id |-> ClientOrderId(order),
     exchange_order_id |-> Str(data.order_id).text,
     new_state |-> ORDER_STATE[data.status]]

\* _process_order_message with _create_order_update_with_order_status_data:
\* what the call does and the exception it raises.  exc is what
\* process_order_update raises.
ProcessOrderMessage(data, exc) ==
    LET client_order_id == Str(data.order_id).text IN
    IF client_order_id \notin all_fillable_orders
    THEN [outcome |-> "ignored", exception |-> "none", update |-> NoOrderUpdate]
    ELSE IF ~data.has_time \/ data.status \notin DOMAIN ORDER_STATE
    THEN [outcome |-> "error", exception |-> "KeyError", update |-> NoOrderUpdate]
    ELSE IF exc # "none"
    THEN [outcome |-> "error", exception |-> exc, update |-> NoOrderUpdate]
    ELSE [outcome |-> "order_update", exception |-> "none",
          update |-> OrderUpdateOf(data, client_order_id)]

\* The body of the loop for one message.  A trade action reaches
\* "self._process_trade_message(results)", a call of an async def without
\* await: a coroutine object is made and dropped, its body never runs.
HandleMessage(msg, exc) ==
    IF msg.kind = "malformed"
    THEN [outcome |-> "error", exception |-> "AttributeError", update |-> NoOrderUpdate]
    ELSE IF IsUnexpected(msg)
    THEN [outcome |-> "dropped", exception |-> "none", update |-> NoOrderUpdate]
    ELSE IF msg.action \in {"TRADES_CREATE", "TRADES_UPDATE"}
    THEN [outcome |-> "coroutine_dropped", exception |-> "none", update |-> NoOrderUpdate]
    ELSE IF msg.action \in {"ORDER_SUBMITTED", "ORDER_TRADE_PROCESSED"}
    THEN ProcessOrderMessage(msg.data, exc)
    ELSE [outcome |-> "no_match", exception |-> "none", update |-> NoOrderUpdate]

\* The except clauses of the loop body: where the listener is after the
\* exception e of the body.
OnHandlerException_Propagate(e) ==
    IF e = "CancelledError" THEN "cancelled" ELSE "crashed"

OnHandlerException_CatchAll(e) == "backoff"

OnHandlerException(e) ==
    IF e = "CancelledError" THEN "cancelled" ELSE "backoff"

InitListener ==
    /\ listener_pc = "waiting"
    /\ listener_handled = 0
    /\ listener_last = NoMessage
    /\ listener_outcome = "none"
    /\ listener_exception = "none"
    /\ listener_errors = 0
    /\ listener_backoffs = 0
    /\ listener_raised = "none"
    /\ listener_cancels = 0
    /\ listener_trade_updates = 0
    /\ order_update_calls = 0
    /\ listener_order_update = NoOrderUpdate

\* One round of the loop: the queue delivers msg and the body runs for it, up
\* to the next wait (for the queue, or in the backoff sleep).  An OrderUpdate
\* with a done state takes the order out of the in-flight orders.
ListenerHandle(msg, exc) ==
    /\ listener_pc = "waiting"
    /\ listener_handled < MaxMessages
    /\ LET r == HandleMessage(msg, exc)
           after == IF r.exception = "none" THEN "waiting"
                    ELSE OnHandlerException(r.exception)
           done == r.outcome = "order_update" /\ r.update.new_state \in DoneStates
           x == r.update.exchange_order_id
       IN  /\ listener_handled' = listener_handled + 1
           /\ listener_last' = msg
           /\ listener_outcome' = r.outcome
           /\ listener_exception' = r.exception
           /\ listener_pc' = after
           /\ listener_errors' = listener_errors + (IF after = "backoff" THEN 1 ELSE 0)
           /\ listener_backoffs' = listener_backoffs + (IF after = "backoff" THEN 1 ELSE 0)
           /\ listener_raised' = IF after \in {"cancelled", "crashed"}
                                 THEN r.exception ELSE "none"
           /\ listener_cancels' = listener_cancels
                                  + (IF r.exception = "CancelledError" THEN 1 ELSE 0)
           /\ listener_trade_updates' = listener_trade_updates
           /\ order_update_calls' = order_update_calls
                                    + (IF r.outcome = "order_update" THEN 1 ELSE 0)
           /\ listener_order_update' = IF r.outcome = "order_update" THEN r.update
                                       ELSE listener_order_update
           /\ active_orders' = IF done THEN active_orders \ {x} ELSE active_orders
           /\ cached_orders' = IF done /\ x \in active_orders
                               THEN cached_orders \cup {x} ELSE cached_orders
    /\ UNCHANGED <<current_timestamp, last_poll_timestamp, trading_pairs,
                   exchange_order_ids, current_trade_fills,
                   poll_pc, order_by_exchange_id_map, polls, user_trades,
                   poll_outcome, poll_listed, trade_requests, poll_handled, poll_updates, poll_events,
                   trade_update_calls, order_filled_events,
                   order_fills, fills_applied>>
    /\ UNCHANGED <<place_vars, cancel_vars, status_vars, market_vars, network_vars>>

\* The backoff sleep ends and the loop waits for the next message.
ListenerBackoffEnd ==
    /\ listener_pc = "backoff"
    /\ listener_pc' = "waiting"
    /\ UNCHANGED <<listener_handled, listener_last, listener_outcome,
                   listener_exception, listener_errors, listener_backoffs, listener_raised,
                   listener_cancels, listener_trade_updates,
                   order_update_calls, listener_order_update>>
    /\ UNCHANGED <<current_timestamp, poll_vars, place_vars, cancel_vars, status_vars, market_vars, network_vars>>

\* The listener's task is cancelled where it is suspended: in the wait for
\* the next message (_iter_user_event_queue re-raises) or in the backoff
\* sleep of the except clause; the CancelledError leaves the listener.
ListenerCancel ==
    /\ listener_pc \in {"waiting", "backoff"}
    /\ listener_pc' = "cancelled"
    /\ listener_raised' = "CancelledError"
    /\ listener_cancels' = listener_cancels + 1
    /\ UNCHANGED <<listener_handled, listener_last, listener_outcome,
                   listener_exception, listener_errors, listener_backoffs,
                   listener_trade_updates, order_update_calls,
                   listener_order_update>>
    /\ UNCHANGED <<current_timestamp, poll_vars, place_vars, cancel_vars, status_vars, market_vars, network_vars>>

NextListener ==
    \/ \E x \in TrackableIds : StartTracking(x)
    \/ \E x \in TrackableIds : StopTracking(x)
    \/ \E msg \in UserStreamMessages, exc \in TrackerExceptions :
           ListenerHandle(msg, exc)
    \/ ListenerBackoffEnd
    \/ ListenerCancel

\* ---------------------------------------------------- _request_order_status
\* ClientOrderTracker's limit of not-found reports after which an order is
\* given up as failed.
LostOrderCountLimit == 3

\* The exchange order ids the exchange knows; the placeholder is none.
ExchangeKnownIds == {"100234"}

\* The answers of the exchange to the order-status request for an order id:
\* an error (the order-does-not-exist error, or another), the empty list when
\* it knows no such order, and the list with the order's data when it does.
StatusAnswers(o_id) ==
    {[kind |-> "error", not_exist |-> b] : b \in BOOLEAN}
    \cup (IF o_id \in ExchangeKnownIds
          THEN {[kind |-> "list", orders |-> <<[order_id |-> JsonNumber(o_id), status |-> st]>>] :
                    st \in DOMAIN ORDER_STATE}
          ELSE {[kind |-> "list", orders |-> <<>>]})

AllStatusAnswers == UNION {StatusAnswers(x) : x \in ExchangeKnownIds \cup {"Unknown"}}

\* _is_order_not_found_during_status_update_error.
IsOrderNotFoundDuringStatusUpdate(answer) == answer.not_exist

InitStatus ==
    /\ tracked_exchange_id = ""
    /\ tracked_state = "none"
    /\ status_outcome = "none"
    /\ not_found_count = 0
    /\ status_last = "none"
    /\ order_failure_events = {}

\* L853: the new state of the OrderUpdate, read from the first order of the
\* answer.
StatusNewState_AlwaysOpen(order_data) == "OPEN"

StatusNewState(order_data) == ORDER_STATE[order_data.status]

\* ClientOrderTracker.process_order_update: an update to FAILED makes the
\* order-failure event of the order's client order id.
FailureEvents(new_state) ==
    IF new_state = "FAILED"
    THEN order_failure_events \cup {ClientOrderId(tracked_exchange_id)}
    ELSE order_failure_events

\* The host after _place_order has returned: the order is tracked as open
\* with the exchange order id _place_order returned.
TrackPlaced ==
    /\ place_pc = "returned"
    /\ tracked_state = "none"
    /\ tracked_exchange_id' = place_result.o_id
    /\ tracked_state' = "OPEN"
    /\ UNCHANGED <<status_outcome, not_found_count, status_last, order_failure_events>>
    /\ UNCHANGED <<current_timestamp, poll_vars, place_vars, cancel_vars, listener_vars, market_vars, network_vars>>

\* One status poll of the open order: _request_order_status asks for the
\* order by the exchange order id the tracker holds, and the host applies the
\* OrderUpdate or handles the error (an order reported as not existing
\* LostOrderCountLimit times is given up as failed).  The tracker keeps an
\* exchange order id it already has.
RequestOrderStatus(answer) ==
    /\ tracked_state = "OPEN"
    /\ answer \in StatusAnswers(tracked_exchange_id)
    /\ IF answer.kind = "error"
       THEN IF IsOrderNotFoundDuringStatusUpdate(answer)
            THEN /\ status_outcome' = "not_found"
                 /\ not_found_count' = not_found_count + 1
                 /\ tracked_state' = IF not_found_count + 1 >= LostOrderCountLimit
                                     THEN "FAILED" ELSE tracked_state
                 /\ status_last' = "none"
            ELSE /\ status_outcome' = "IOError"
                 /\ status_last' = "none"
                 /\ UNCHANGED <<not_found_count, tracked_state>>
       ELSE IF Len(answer.orders) = 0
            THEN /\ status_outcome' = "IndexError"
                 /\ status_last' = "none"
                 /\ UNCHANGED <<not_found_count, tracked_state>>
            ELSE /\ status_outcome' = "updated"
                 /\ status_last' = answer.orders[1].status
                 /\ tracked_state' = StatusNewState(answer.orders[1])
                 /\ UNCHANGED not_found_count
    /\ order_failure_events' = FailureEvents(tracked_state')
    /\ UNCHANGED tracked_exchange_id
    /\ UNCHANGED <<current_timestamp, poll_vars, place_vars, cancel_vars, listener_vars, market_vars, network_vars>>

\* The status polling loop runs a status poll.
StatusPoll == \E answer \in AllStatusAnswers : RequestOrderStatus(answer)

NextStatus ==
    \/ NextPlace
    \/ TrackPlaced
    \/ StatusPoll

\* ------------------------------------ _markets, _market: market resolution
\* The connector objects of one process; "self" submits orders and polls,
\* "other" is a second connector (another account or chain configuration).
Instances == {"self", "other"}

\* Where Python keeps an attribute: in the instance's own dictionary or in
\* the class body (_markets = {} and _market = {} at L53-54).
Holders == Instances \cup {"class"}

\* An instance dictionary without the attribute, and a dictionary (of an
\* instance or of the class) that binds it to a value.
Unset == [bound |-> FALSE]

Bound(value) == [bound |-> TRUE, value |-> value]

\* _market = {}: the class attribute, a dictionary without a key.
NoMarketInfo == [id |-> "none"]

\* self.chain, the chain the connector is configured for.
chain == "base"

\* The markets the exchange may list: m1 and m2 carry the same chain and the
\* same symbol, m3 is another symbol and m4 the same symbol on another chain.
MarketIds == {"m1", "m2", "m3", "m4"}

\* One element of the market list answer.
MarketListEntry(id) ==
    [id |-> id,
     chainId |-> IF id = "m4" THEN "polygon" ELSE chain,
     symbol |-> IF id = "m3" THEN <<"ETH", "USDT">> ELSE <<"COINALPHA", "HBOT">>]

\* The exchange-info answer for one market id.
MarketInfo(id) ==
    [id |-> id,
     symbol |-> MarketListEntry(id).symbol,
     base_precision |-> CASE id = "m1" -> 1 [] id = "m2" -> 2 [] OTHER -> 2,
     quote_precision |-> CASE id = "m1" -> 2 [] id = "m2" -> 1 [] OTHER -> 3]

\* The answers of the market list request.
MarketLists ==
    {[i \in 1..Len(s) |-> MarketListEntry(s[i])] : s \in DistinctSeqs(MarketIds, MaxMarkets)}

\* What the market list request does: it answers with a list or raises.
RequestFailure == [ok |-> FALSE, markets |-> <<>>]

ListAnswers == {[ok |-> TRUE, markets |-> m] : m \in MarketLists} \cup {RequestFailure}

\* self._markets, self._market: the instance's own attribute when it has
\* one, the class attribute otherwise.
Lookup(attr, instance) ==
    IF attr[instance].bound THEN attr[instance].value ELSE attr["class"].value

\* self._markets = ..., self._market = ...: an assignment through self binds
\* the attribute in the instance's dictionary (L953, L981).
AssignTarget_Class(instance) == "class"

AssignTarget(instance) == instance

\* The operations of "self" that resolve the market: a submit
\* (generate_typed_data, L410) and a poll (_users_orders, L647;
\* _get_last_traded_price, L996).
Tasks == {"submit", "poll"}

\* L975-976: the loop over trading_pairs leaves in symbol the exchange symbol
\* of the pair configured last.
ResolvedSymbol == exchange_symbol_associated_to_pair(trading_pairs[Len(trading_pairs)])

\* L977-979: the entries of the list with the connector's chain and symbol.
Matches(markets) ==
    SelectSeq(markets, LAMBDA market : market.chainId = chain /\ market.symbol = ResolvedSymbol)

\* The number of decimal digits of n.
RECURSIVE DigitCount(_)
DigitCount(n) == IF n < 10 THEN 1 ELSE 1 + DigitCount(n \div 10)

RECURSIVE Pow10(_)
Pow10(k) == IF k = 0 THEN 1 ELSE 10 * Pow10(k - 1)

\* f"{x:.{p}g}" of a Decimal x: x rounded half-even to p significant digits
\* (a precision of 0 counts as 1).  Numbers are kept in thousandths, so n
\* stands for n/1000; leading zeros are not significant, so the significant
\* digits of n/1000 are those of n.  The result is the value of the string.
FormatG(n, p) ==
    LET digits == IF p = 0 THEN 1 ELSE p
        drop == DigitCount(n) - digits
        unit == Pow10(drop)
        q == n \div unit
        r == n % unit
        up == 2 * r > unit \/ (2 * r = unit /\ q % 2 = 1)
    IN  IF n = 0 \/ drop <= 0 THEN n ELSE (IF up THEN q + 1 ELSE q) * unit

\* The fractional digits needed to write n/1000.
FractionDigits(n) ==
    IF n % 1000 = 0 THEN 0 ELSE IF n % 100 = 0 THEN 1 ELSE IF n % 10 = 0 THEN 2 ELSE 3

\* The amounts and prices of the orders, in thousandths.
Quantities == {[amount |-> 16, price |-> 1250], [amount |-> 1, price |-> 15]}

NoOrder == [order_type |-> "none"]
NoParams == [price |-> -1, amount |-> -1]
NothingFetched == [list |-> FALSE, info |-> FALSE]

\* L410: generate_typed_data awaits _initialize_verified_market whatever the
\* cache holds.
MustResolve_OnlyWhenEmpty(cached_market) == cached_market = NoMarketInfo

MustResolve(cached_market) == TRUE

\* L414-416: params["price"] and params["amount"].
FormatOrder(order, market) ==
    [price |-> FormatG(order.price, market.quote_precision),
     amount |-> FormatG(order.amount, market.base_precision)]

InitMarket ==
    /\ markets_attr = [h \in Holders |-> IF h = "class" THEN Bound(<<>>) ELSE Unset]
    /\ market_attr = [h \in Holders |-> IF h = "class" THEN Bound(NoMarketInfo) ELSE Unset]
    /\ task_pc = [t \in Tasks |-> "idle"]
    /\ task_market_id = [t \in Tasks |-> "none"]
    /\ task_error = [t \in Tasks |-> "none"]
    /\ submit_order = NoOrder
    /\ submit_params = NoParams
    /\ fetched_since_submit = NothingFetched
    /\ submit_used = NothingFetched

\* A generate_typed_data that formats with the _market it found when the
\* exchange-info answer arrived, if there was one, not with the one just
\* assigned.
ReadAndFormat_CachedBefore(order, markets_now, fetched) ==
    /\ submit_used' = fetched
    /\ IF order.order_type \in {"LIMIT", "LIMIT_MAKER"}
       THEN /\ submit_params' =
                   FormatOrder(order,
                               IF Lookup(market_attr, "self") = NoMarketInfo
                               THEN Lookup(markets_now, "self")
                               ELSE Lookup(market_attr, "self"))
            /\ task_pc' = [task_pc EXCEPT !["submit"] = "sign"]
       ELSE /\ submit_params' = NoParams
            /\ task_pc' = [task_pc EXCEPT !["submit"] = "returned"]

\* L411-427 of generate_typed_data, once _market is there: read the
\* precisions, format, and send the typed-data request for a limit order;
\* any other order type falls off the end of the method and returns None.
ReadAndFormat(order, markets_now, fetched) ==
    /\ submit_used' = fetched
    /\ IF order.order_type \in {"LIMIT", "LIMIT_MAKER"}
       THEN /\ submit_params' = FormatOrder(order, Lookup(markets_now, "self"))
            /\ task_pc' = [task_pc EXCEPT !["submit"] = "sign"]
       ELSE /\ submit_params' = NoParams
            /\ task_pc' = [task_pc EXCEPT !["submit"] = "returned"]

\* generate_typed_data is called (L402-410).
SubmitStart(amount, price, order_type, trading_pair) ==
    /\ task_pc["submit"] \in {"idle", "returned", "raised"}
    /\ submit_order' = [amount |-> amount, price |-> price,
                        order_type |-> order_type, trading_pair |-> trading_pair]
    /\ fetched_since_submit' = NothingFetched
    /\ task_error' = [task_error EXCEPT !["submit"] = "none"]
    /\ IF MustResolve(Lookup(market_attr, "self"))
       THEN /\ task_pc' = [task_pc EXCEPT !["submit"] = "list"]
            /\ submit_params' = NoParams
            /\ submit_used' = NothingFetched
       ELSE ReadAndFormat(submit_order', market_attr, NothingFetched)
    /\ UNCHANGED <<markets_attr, market_attr, task_market_id>>
    /\ UNCHANGED <<current_timestamp, poll_vars, place_vars, cancel_vars, listener_vars, status_vars, network_vars>>

\* Another operation calls _initialize_verified_market (L647, L996).
ResolveStart(task) ==
    /\ task # "submit"
    /\ task_pc[task] = "idle"
    /\ task_pc' = [task_pc EXCEPT ![task] = "list"]
    /\ task_error' = [task_error EXCEPT ![task] = "none"]
    /\ UNCHANGED <<markets_attr, market_attr, task_market_id, submit_order,
                   submit_params, fetched_since_submit, submit_used>>
    /\ UNCHANGED <<current_timestamp, poll_vars, place_vars, cancel_vars, listener_vars, status_vars, network_vars>>

\* How an operation ends when an exception leaves it.
Raised(task) == IF task = "submit" THEN "raised" ELSE "idle"

\* The market list request of _initialize_market_list is answered (L951-970)
\* and _initialize_verified_market goes on to L974-984: a failed request is
\* logged and raised again; otherwise _markets is assigned, the matching
\* entries are collected and the exchange-info request is sent for id[0],
\* which is an IndexError, logged and raised again, when nothing matched.
ResolveList(task, answer) ==
    /\ task_pc[task] = "list"
    /\ IF ~answer.ok
       THEN /\ task_error' = [task_error EXCEPT ![task] = "IOError"]
            /\ task_pc' = [task_pc EXCEPT ![task] = Raised(task)]
            /\ UNCHANGED <<markets_attr, task_market_id, fetched_since_submit>>
       ELSE /\ markets_attr' = [markets_attr EXCEPT ![AssignTarget("self")] = Bound(answer.markets)]
            /\ fetched_since_submit' = [fetched_since_submit EXCEPT !.list = TRUE]
            /\ LET id == Matches(Lookup(markets_attr', "self"))
               IN  IF id = <<>>
                   THEN /\ task_error' = [task_error EXCEPT ![task] = "IndexError"]
                        /\ task_pc' = [task_pc EXCEPT ![task] = Raised(task)]
                        /\ UNCHANGED task_market_id
                   ELSE /\ task_pc' = [task_pc EXCEPT ![task] = "info"]
                        /\ task_market_id' = [task_market_id EXCEPT ![task] = id[1].id]
                        /\ UNCHANGED task_error
    /\ UNCHANGED <<market_attr, submit_order, submit_params, submit_used>>
    /\ UNCHANGED <<current_timestamp, poll_vars, place_vars, cancel_vars, listener_vars, status_vars, network_vars>>

\* The exchange-info request is answered (L980-992): a failure is logged and
\* raised again, an answer is assigned to _market.  A submit then goes on
\* with L411-416 without giving up control in between.
ResolveInfo(task, ok) ==
    /\ task_pc[task] = "info"
    /\ IF ~ok
       THEN /\ task_error' = [task_error EXCEPT ![task] = "IOError"]
            /\ task_pc' = [task_pc EXCEPT ![task] = Raised(task)]
            /\ UNCHANGED <<market_attr, fetched_since_submit, submit_params, submit_used>>
       ELSE /\ market_attr' = [market_attr EXCEPT ![AssignTarget("self")] =
                                   Bound(MarketInfo(task_market_id[task]))]
            /\ fetched_since_submit' = [fetched_since_submit EXCEPT !.info = TRUE]
            /\ UNCHANGED task_error
            /\ IF task = "submit"
               THEN ReadAndFormat(submit_order, market_attr', fetched_since_submit')
               ELSE /\ task_pc' = [task_pc EXCEPT ![task] = "idle"]
                    /\ UNCHANGED <<submit_params, submit_used>>
    /\ task_market_id' = [task_market_id EXCEPT ![task] = "none"]
    /\ UNCHANGED <<markets_attr, submit_order>>
    /\ UNCHANGED <<current_timestamp, poll_vars, place_vars, cancel_vars, listener_vars, status_vars, network_vars>>

\* The other connector resolves its own market, both requests answered.
OtherResolve(id) ==
    /\ markets_attr' = [markets_attr EXCEPT ![AssignTarget("other")] = Bound(<<MarketListEntry(id)>>)]
    /\ market_attr' = [market_attr EXCEPT ![AssignTarget("other")] = Bound(MarketInfo(id))]
    /\ UNCHANGED <<task_pc, task_market_id, task_error, submit_order,
                   submit_params, fetched_since_submit, submit_used>>
    /\ UNCHANGED <<current_timestamp, poll_vars, place_vars, cancel_vars, listener_vars, status_vars, network_vars>>

\* The typed-data request is answered (L417-427): the data is returned to
\* _place_order, which signs it; an IOError is raised again as IOError.
SubmitSigned(ok) ==
    /\ task_pc["submit"] = "sign"
    /\ task_pc' = [task_pc EXCEPT !["submit"] = IF ok THEN "returned" ELSE "raised"]
    /\ task_error' = [task_error EXCEPT !["submit"] = IF ok THEN "none" ELSE "IOError"]
    /\ UNCHANGED <<markets_attr, market_attr, task_market_id, submit_order,
                   submit_params, fetched_since_submit, submit_used>>
    /\ UNCHANGED <<current_timestamp, poll_vars, place_vars, cancel_vars, listener_vars, status_vars, network_vars>>

NextMarket ==
    \/ \E q \in Quantities, order_type \in OrderTypes :
         \E i \in 1..Len(trading_pairs) :
           SubmitStart(q.amount, q.price, order_type, trading_pairs[i])
    \/ \E task \in Tasks : ResolveStart(task)
    \/ \E task \in Tasks, answer \in ListAnswers :
         ResolveList(task, answer)
    \/ \E task \in Tasks, ok \in BOOLEAN : ResolveInfo(task, ok)
    \/ \E ok \in BOOLEAN : SubmitSigned(ok)
    \/ OtherResolve("m3")

\* ------------------------------------------- start_network / stop_network
\* The number of start_network calls of a run.
MaxStarts == 4

TaskIds == 1..MaxStarts

\* L73: self._allowance_polling_task = None.
InitNetwork ==
    /\ allowance_polling_task = 0
    /\ allowance_tasks = [id \in TaskIds |-> "none"]
    /\ base_network_started = FALSE
    /\ network_last = "none"

\* The tasks safe_ensure_future has created so far.
CreatedTasks == {id \in TaskIds : allowance_tasks[id] # "none"}

\* L244-246: the start_network of the host base class resets and starts its
\* own tasks (it does not call the connector's stop_network); then a new
\* approve_allowance task is created and its reference stored.
start_network ==
    /\ Cardinality(CreatedTasks) < MaxStarts
    /\ LET id == Cardinality(CreatedTasks) + 1
       IN  /\ allowance_tasks' = [allowance_tasks EXCEPT ![id] = "running"]
           /\ allowance_polling_task' = id
    /\ base_network_started' = TRUE
    /\ network_last' = "start"
    /\ UNCHANGED <<current_timestamp, poll_vars, place_vars, cancel_vars, listener_vars, status_vars, market_vars>>

\* Task.cancel(): a task that has ended stays as it is.
Cancel(tasks, id) ==
    IF tasks[id] = "running" THEN [tasks EXCEPT ![id] = "cancelled"] ELSE tasks

\* L250-251: the stored task, if there is one, is cancelled.
StoppedTasks(tasks, stored) == IF stored # 0 THEN Cancel(tasks, stored) ELSE tasks

\* L248-252: the stop_network of the host base class stops its tasks; the
\* stored task is cancelled and the reference set to None.
stop_network ==
    /\ allowance_tasks' = StoppedTasks(allowance_tasks, allowance_polling_task)
    /\ allowance_polling_task' = 0
    /\ base_network_started' = FALSE
    /\ network_last' = "stop"
    /\ UNCHANGED <<current_timestamp, poll_vars, place_vars, cancel_vars, listener_vars, status_vars, market_vars>>

\* approve_allowance returns or raises: the task ends by itself.
AllowanceTaskEnds(id) ==
    /\ allowance_tasks[id] = "running"
    /\ allowance_tasks' = [allowance_tasks EXCEPT ![id] = "done"]
    /\ UNCHANGED <<allowance_polling_task, base_network_started, network_last>>
    /\ UNCHANGED <<current_timestamp, poll_vars, place_vars, cancel_vars, listener_vars, status_vars, market_vars>>

NextNetwork ==
    \/ start_network
    \/ stop_network
    \/ \E id \in TaskIds : AllowanceTaskEnds(id)

Init ==
    /\ InitPoll /\ InitPlace /\ InitCancel /\ InitListener /\ InitStatus
    /\ InitMarket /\ InitNetwork

Next == NextPoll

\* The reconciliation engine: polls, the tracker, the user stream.
Spec == Init /\ [][Next]_vars

\* Order submission.
SpecPlace == Init /\ [][NextPlace]_vars

\* Order cancellation.
SpecCancel == Init /\ [][NextCancel]_vars

\* The user-stream listener and the tracker.
SpecListener == Init /\ [][NextListener]_vars

\* Order submission followed by the status polls of the placed order; the
\* status polling loop keeps polling an open order.
SpecStatus == Init /\ [][NextStatus]_vars /\ WF_vars(StatusPoll)

\* The operations that resolve the market, running concurrently.
SpecMarket == Init /\ [][NextMarket]_vars

\* The network lifecycle.
SpecNetwork == Init /\ [][NextNetwork]_vars

\* ------------------------------------------------------------------ claims
\* C1: for polls whose results hold the same trade id under an exchange order
\* id that is not tracked but recorded, exactly one OrderFilled event is
\* emitted for that trade id in total, however many polls re-observe it:
\* once the event of a trade id is out, no second one follows.
C1_BackfillExactlyOnce ==
    \A t \in TradeTexts :
        order_filled_events[t] > 0 => order_filled_events[t] = 1

TrackedTrades ==
    {i \in 1..Len(user_trades) :
        user_trades[i].order_id \in order_by_exchange_id_map}

\* C3: in a poll, a trade whose exchange order id is that of a tracked order
\* produces exactly one TradeUpdate for that order, with the order's client
\* order id, fill price = trade price, fill base amount = trade amount and
\* fill quote amount = amount * price.
C3_TrackedTradeOneUpdate ==
    poll_outcome = "done" =>
        \A i \in TrackedTrades :
            LET trade == user_trades[i]
                mine == {j \in 1..Len(poll_updates) :
                            /\ poll_updates[j].trade_id = trade.id
                            /\ poll_updates[j].exchange_order_id = trade.order_id}
            IN  /\ Cardinality(mine) = 1
                /\ \A j \in mine :
                       /\ poll_updates[j].client_order_id = ClientOrderId(trade.order_id)
                       /\ poll_updates[j].fill_price = trade.price
                       /\ poll_updates[j].fill_base_amount = trade.amount
                       /\ poll_updates[j].fill_quote_amount = trade.amount * trade.price

\* C4: in one poll cycle every trade of the fetched trade list is handled
\* (a TradeUpdate for a tracked order's trade, the backfill test for any
\* other), whatever the number of trades and of configured trading pairs.
C4_EveryFetchedTradeHandled ==
    poll_outcome = "done" => poll_handled = Len(user_trades)

\* C5: every TradeUpdate handed to the order tracker refers to an order that
\* is in the fillable-order index at the moment it is handed over, also when
\* orders leave the index while the poll awaits its trade-history fetch.
C5_UpdateOnlyForFillableOrder ==
    [][(poll_pc = "fetching" /\ poll_outcome' = "done") =>
          \A j \in 1..Len(poll_updates') :
              poll_updates'[j].exchange_order_id \in all_fillable_orders']_vars
\* _place_order has ended after its order POST raised an IOError.
PlaceEndedOnIOError ==
    /\ place_pc \in {"returned", "raised"}
    /\ place_error.class = "IOError"

\* C6: when the order POST fails with HTTP status 503 and the overload
\* message, _place_order does not raise and returns the placeholder exchange
\* order id "UNKNOWN" with the current time as transact time (in seconds or
\* in milliseconds).
C6_OverloadReturnsUNKNOWN ==
    [][(/\ place_pc = "posting"
        /\ place_error'.class = "IOError"
        /\ InDescription("status is 503", place_error')
        /\ InDescription(OVERLOAD_MESSAGE, place_error'))
       => /\ place_pc' = "returned"
          /\ place_result'.o_id = "UNKNOWN"
          /\ place_result'.transact_time \in
                 {current_timestamp, current_timestamp * 1000}]_vars

\* C7: when the order POST fails with an insufficient-allowance error,
\* exactly one approval attempt is made, the order POST is not sent again and
\* the original error is raised to the caller.
C7_AllowanceApproveOnceThenRaiseOriginal ==
    (PlaceEndedOnIOError /\ InDescription("insufficient allowance", place_error))
        => /\ approve_calls = 1
           /\ order_posts = 1
           /\ place_pc = "raised"
           /\ place_raised = place_error

\* C8: an order POST failure that is neither the overload pattern nor
\* insufficient allowance is raised unchanged to the caller and no
\* placeholder is returned; so for an HTTP 503 with another message.
C8_OtherErrorsPropagate ==
    (/\ place_pc \in {"returned", "raised"}
     /\ place_error # NoError
     /\ ~InDescription("insufficient allowance", place_error)
     /\ ~(/\ InDescription("status is 503", place_error)
          /\ InDescription(OVERLOAD_MESSAGE, place_error)))
        => /\ place_pc = "raised"
           /\ place_raised = place_error
           /\ place_result = NoResult
           /\ approve_calls = 0

\* C8 witness: a 503 with the message "Service Unavailable." was raised to the
\* caller as it came.
C8_Witness ==
    /\ place_pc = "raised"
    /\ place_error = [class |-> "IOError", status |-> 503,
                      body |-> "Service Unavailable."]
    /\ place_raised = place_error

\* C9: when the cancel typed-data request reports "Orders not found", the
\* cancel signs nothing, sends no cancel POST, raises nothing and ends with
\* the no-action result None.
C9_NotFoundIsBenign ==
    (/\ cancel_pc \in {"returned", "raised"}
     /\ cancel_error.class = "IOError"
     /\ InDescription("Orders not found", cancel_error))
        => /\ cancel_pc = "returned"
           /\ cancel_returned = "None"
           /\ cancel_raised = NoError
           /\ cancel_signs = 0
           /\ cancel_posts = 0

\* C9 witness: a cancel whose typed-data request failed with "Orders not
\* found" has ended.
C9_Witness ==
    /\ cancel_pc = "returned"
    /\ cancel_error.class = "IOError"
    /\ cancel_error.body = "Orders not found"
    /\ cancel_returned = "None"
    /\ not_found_calls = 1

\* The cancel POST was answered (with a list of cancelled order ids).
CancelAnswered ==
    \/ cancel_returned \in {"True", "False"}
    \/ cancel_raised = IndexError

\* C10: for every cancel response, _place_cancel returns true if and only if
\* the list of cancelled order ids holds the requested exchange order id, and
\* false otherwise, also when the list is empty or holds the id at another
\* position than the first.
C10_TrueIffListHoldsRequestedId ==
    CancelAnswered =>
        /\ cancel_pc = "returned"
        /\ cancel_returned =
               IF \E i \in 1..Len(cancel_response) : cancel_response[i] = cancel_ids[1]
               THEN "True" ELSE "False"
\* C11: whenever a cancel ends with the result false, process_order_not_found
\* has been called for the order and no error was raised.
C11_FalseResultTriggersNotFound ==
    (cancel_pc = "returned" /\ cancel_returned = "False")
        => /\ not_found_calls = 1
           /\ cancel_raised = NoError

\* The guard of the poll with integer quotients: a long-interval tick has
\* passed since the last poll, or a short-interval tick has passed and an
\* order is in flight.
IntegerTickGuard ==
    \/ current_timestamp \div LONG_POLL_INTERVAL
           > last_poll_timestamp \div LONG_POLL_INTERVAL
    \/ /\ in_flight_orders # {}
       /\ current_timestamp \div UPDATE_ORDER_STATUS_MIN_INTERVAL
              > last_poll_timestamp \div UPDATE_ORDER_STATUS_MIN_INTERVAL

\* C12: a call of _update_order_fills_from_trades goes on to its requests
\* only if the integer-quotient guard holds; with the last poll and the clock
\* in one long-interval window and no order in flight it does nothing.
C12_PollOnlyOnIntegerTick ==
    [][(poll_pc = "idle" /\ poll_pc' = "fetching") => IntegerTickGuard]_vars

\* C13: a failed per-order trade fetch is not propagated: no poll ends by an
\* exception out of _user_trades (in these runs the order listing itself
\* never fails, so every such exception stems from a per-order fetch).
C13_FetchFailureNotPropagated ==
    poll_outcome # "raised"
\* C19: a poll that runs after an earlier poll does not discard a trade
\* because its timestamp is before the current wall-clock time: when the
\* fetched list is no longer than the list of trading pairs, each fetched
\* trade of a tracked order that was executed after the last poll and before
\* now yields its TradeUpdate.
C19_TradeBeforeNowNotDiscarded ==
    [][(/\ poll_pc = "fetching"
        /\ poll_outcome' = "done"
        /\ last_poll_timestamp > 0
        /\ Len(user_trades') <= Len(trading_pairs))
       => \A i \in 1..Len(user_trades') :
              (/\ user_trades'[i].order_id \in order_by_exchange_id_map
               /\ user_trades'[i].timestamp > last_poll_timestamp * 1000
               /\ user_trades'[i].timestamp < current_timestamp * 1000)
              => \E j \in 1..Len(poll_updates') :
                     poll_updates'[j].trade_id.text = user_trades'[i].id.text]_vars
\* The listener's loop body has just run for a message.
ListenerHandled == listener_handled' = listener_handled + 1

\* C14: an exception other than cancellation raised while the listener
\* handles a message never ends the listener: it is logged, a 5-second
\* backoff follows, and after the backoff the listener waits for the next
\* message again.
C14_ErrorNeverEndsListener ==
    [][/\ (ListenerHandled /\ listener_exception' \notin {"none", "CancelledError"})
           => /\ listener_pc' = "backoff"
              /\ listener_errors' = listener_errors + 1
              /\ listener_backoffs' = listener_backoffs + 1
              /\ listener_raised' = "none"
       /\ (listener_pc = "backoff" /\ listener_pc' # "backoff"
               /\ listener_cancels' = listener_cancels)
           => listener_pc' = "waiting"]_vars

\* C14 witness: after a message whose handling raised, logged and backed off,
\* the listener has handled the next message, an order event, to its
\* OrderUpdate.
C14_Witness ==
    /\ listener_handled = 2
    /\ listener_errors = 1
    /\ listener_backoffs = 1
    /\ listener_outcome = "order_update"
    /\ listener_pc = "waiting"

\* C15: a cancellation that reaches the listener, while it waits for the next
\* message or while it handles one, ends it with the CancelledError, with no
\* backoff and no error log, and a cancelled listener handles nothing more.
C15_CancellationEndsListener ==
    [][/\ (listener_cancels' = listener_cancels + 1)
           => /\ listener_pc' = "cancelled"
              /\ listener_raised' = "CancelledError"
              /\ listener_backoffs' = listener_backoffs
              /\ listener_errors' = listener_errors
       /\ (listener_pc = "cancelled") => UNCHANGED listener_vars]_vars

\* C15 witness: the listener was cancelled while it handled its second
\* message.
C15_Witness ==
    /\ listener_pc = "cancelled"
    /\ listener_raised = "CancelledError"
    /\ listener_exception = "CancelledError"
    /\ listener_handled = 2
    /\ listener_backoffs = 0

C17_TradeEventYieldsTradeUpdate ==
    [][(/\ ListenerHandled
        /\ listener_last'.kind = "event"
        /\ listener_last'.action \in {"TRADES_CREATE", "TRADES_UPDATE"}
        /\ \E x \in all_fillable_orders : TradeOfOrder(x) = listener_last'.id)
       => listener_trade_updates' = listener_trade_updates + 1]_vars

\* C18: when the listener handles an order-submitted or order-trade-processed
\* event with a mapped status, then if its order_id is the exchange order id
\* of a tracked order exactly one OrderUpdate with the order's client order
\* id and the mapped state is handed to the tracker (unless the tracker
\* itself raises), and if the order is not tracked none is.
C18_OrderEventYieldsOrderUpdate ==
    [][(/\ ListenerHandled
        /\ listener_last'.kind = "event"
        /\ listener_last'.action \in {"ORDER_SUBMITTED", "ORDER_TRADE_PROCESSED"}
        /\ listener_last'.data.status \in DOMAIN ORDER_STATE
        /\ listener_exception' \notin {"Exception", "CancelledError"})
       => LET data == listener_last'.data
              x == Str(data.order_id).text
          IN  IF x \in all_fillable_orders
              THEN /\ order_update_calls' = order_update_calls + 1
                   /\ listener_order_update' =
                          [client_order_id |-> ClientOrderId(x),
                           exchange_order_id |-> x,
                           new_state |-> ORDER_STATE[data.status]]
              ELSE order_update_calls' = order_update_calls]_vars
\* C20: an order whose submission was masked with the placeholder exchange
\* order id is eventually, by a status poll, given its real exchange order id
\* or its real outcome.
C20_PlaceholderEventuallyReplaced ==
    (tracked_exchange_id = "Unknown")
        ~> (tracked_exchange_id \in ExchangeKnownIds \/ status_outcome = "updated")

\* C21: in every submit the market list and the market information are
\* fetched after the submit began and before the amount and price are
\* formatted and the typed-data payload is requested: whenever a submit has
\* formatted its parameters (the request is in flight or has returned the
\* data to sign), the _market it read was assigned by requests answered
\* during that submit.
C21_SignedOnlyWithRefetchedMarket ==
    (task_pc["submit"] \in {"sign", "returned"} /\ submit_params # NoParams)
        => (submit_used.list /\ submit_used.info)

\* A submit resolved the market during the call and returned the data to sign.
C21_Witness ==
    /\ task_pc["submit"] = "returned"
    /\ submit_params # NoParams
    /\ submit_used.list /\ submit_used.info
    /\ submit_order.price = 15


\* C22: market resolution fails with an error and leaves the cached market
\* unchanged when the market list just fetched holds no entry, or more than
\* one entry, with the connector's chain and symbol: a resolution whose list
\* request was answered goes on to the exchange-info request only with
\* exactly one matching entry, and otherwise ends with an error.
C22_NoOrSeveralMatchesIsError ==
    [][\A task \in Tasks :
         (/\ task_pc[task] = "list" /\ task_pc'[task] # "list"
          /\ task_error'[task] # "IOError"
          /\ Len(Matches(Lookup(markets_attr', "self"))) # 1)
             => (/\ task_pc'[task] # "info"
                 /\ task_error'[task] # "none"
                 /\ market_attr' = market_attr)]_vars


\* The market list and the market one connector instance sees.
InstanceView(instance) ==
    <<Lookup(markets_attr, instance), Lookup(market_attr, instance)>>

\* C26: the market list and the resolved market are per-instance state: a
\* step of a resolving operation of "self" leaves what "other" sees
\* unchanged, and a resolution of "other" leaves what "self" sees unchanged.
C26_ResolveLeavesOtherInstancesAlone ==
    [][/\ task_pc' # task_pc => InstanceView("other")' = InstanceView("other")
       /\ task_pc' = task_pc => InstanceView("self")' = InstanceView("self")]_vars

\* "self" resolved market m1 while "other" still sees no market at all, and
\* no market list.
C26_Witness ==
    /\ Lookup(market_attr, "self") = MarketInfo("m1")
    /\ Len(Lookup(markets_attr, "self")) > 0
    /\ InstanceView("other") = <<<<>>, NoMarketInfo>>


\* n/1000 cut after p fractional digits, toward zero.
TruncatedTo(n, p) == IF p >= 3 THEN n ELSE n - (n % Pow10(3 - p))

\* C23: the amount and price strings of the typed-data request have at most
\* p fractional digits, p the market's base or quote precision, and their
\* value is the input truncated toward zero, never greater than the input.
C23_FormattedIsTruncated ==
    [][(submit_params' # submit_params /\ submit_params' # NoParams) =>
          LET market == Lookup(market_attr', "self")
          IN  /\ submit_params'.amount <= submit_order.amount
              /\ submit_params'.price <= submit_order.price
              /\ FractionDigits(submit_params'.amount) <= market.base_precision
              /\ FractionDigits(submit_params'.price) <= market.quote_precision
              /\ submit_params'.amount = TruncatedTo(submit_order.amount, market.base_precision)
              /\ submit_params'.price = TruncatedTo(submit_order.price, market.quote_precision)]_vars


\* The fee a fill of the given trade has to carry: one flat fee of amount
\* zero in the base token of the traded pair.
ZeroBaseFee(trade_id) == <<[token |-> TradeData(trade_id).symbol[1], amount |-> 0]>>

C25_TransactTimeInSeconds ==
    [][(place_pc = "posting" /\ place_pc' = "returned") =>
          IF place_error' = NoError
          THEN place_result'.transact_time \in {data.timestamp \div 1000 : data \in OrderPostData}
          ELSE place_result'.transact_time = current_timestamp]_vars


\* The exchange order id whose trade carries the given trade id.
OrderOfTrade(trade_id) == CHOOSE x \in ExOrderIds : TradeOfOrder(x).text = trade_id.text

\* C27: the poll makes a backfill OrderFilled event only for a trade whose
\* exchange order id was recorded with a client order id, and the event
\* carries that client order id; a trade whose order is neither tracked nor
\* recorded makes no event.
C27_BackfillOnlyForRecordedOrder ==
    \A i \in 1..Len(poll_events) :
        LET x == OrderOfTrade(poll_events[i].exchange_trade_id)
        IN  /\ x \in exchange_order_ids
            /\ poll_events[i].order_id = ClientOrderId(x)

\* One poll handled the trade of the recorded order 99999 and the trade of
\* order 100234, which is neither tracked nor recorded: one event, for OID99.
C27_Witness ==
    /\ poll_outcome = "done"
    /\ poll_handled = 2
    /\ "100234" \notin order_by_exchange_id_map
    /\ \E i \in 1..Len(user_trades) : user_trades[i].order_id = "100234"
    /\ Len(poll_events) = 1
    /\ poll_events[1].order_id = "OID99"


\* C28: approve_allowance returns the transaction receipt when the approval
\* transaction succeeds, and when gas estimation, signing or sending raises
\* it logs the error and returns None without raising to its caller.
C28_ApproveReturnsReceiptOrNone ==
    (approve_outcome # "none" /\ ~approve_input.request_fails)
        => approve_outcome = IF approve_input.tx_fails THEN "None" ELSE "receipt"

\* C29: one run of approve_allowance in which nothing fails sends an
\* approval for each token, base and quote, of every trading pair.
C29_ApprovesEveryToken ==
    (approve_outcome = "receipt") => approvals_sent = token_list


\* C30: when the cancel POST for a lost order fails, no order-cancelled
\* event is emitted, no CANCELED update is applied, and the order remains
\* among the tracker's lost orders.
C30_FailedCancelKeepsOrderLost ==
    (cancel_for_lost /\ cancel_post_error # NoError)
        => /\ ~cancelled_event
           /\ ~canceled_update
           /\ cancel_ids[1] \in lost_orders

\* The cancel of a lost order whose POST failed with an HTTP error.
C30_Witness ==
    /\ cancel_for_lost
    /\ cancel_post_error.class = "IOError"
    /\ cancel_posts = 1
    /\ cancel_pc = "raised"
    /\ cancel_ids[1] \in lost_orders


RECURSIVE AllTaggedTrades(_, _)
AllTaggedTrades(requests, i) ==
    IF i > Len(requests) THEN <<>>
    ELSE TagTrades(requests[i].order_id, requests[i].ids) \o AllTaggedTrades(requests, i + 1)

\* C32: _user_trades returns the flattened list of all trades of all the
\* per-order fetches, each tagged with its order id; no trade is left out
\* when an order has more than one trade.
C32_ReturnsEveryTrade ==
    [][(poll_pc = "fetching" /\ poll_outcome' = "done")
          => user_trades' = AllTaggedTrades(trade_requests, 1)]_vars

\* ---------------------------------------------------------------- C33
\* C33: one trade request is made per order id of the listing, the requests
\* are answered in any order, and the poll processes no trade and emits no
\* event before every request has completed or failed.
C33_ProcessAfterEveryAnswer ==
    [][/\ (~poll_listed /\ poll_listed')
            => /\ \A i, j \in 1..Len(trade_requests') :
                      trade_requests'[i].order_id = trade_requests'[j].order_id => i = j
               /\ \A i \in 1..Len(trade_requests') : ~trade_requests'[i].done
       /\ (poll_pc = "fetching" /\ poll_pc' = "idle")
            => \A i \in 1..Len(trade_requests) : trade_requests[i].done
       /\ (poll_pc = "fetching" /\ poll_pc' = "fetching")
            => /\ poll_updates' = poll_updates
               /\ poll_events' = poll_events
               /\ poll_handled' = poll_handled
               /\ user_trades' = user_trades]_vars

C33_Witness ==
    /\ poll_pc = "fetching"
    /\ Len(trade_requests) = 2
    /\ ~trade_requests[1].done
    /\ trade_requests[2].done
    /\ Len(trade_requests[2].ids) > 0
    /\ poll_updates = <<>>
    /\ poll_events = <<>>

\* ---------------------------------------------------------------- C34
\* C34: one call of _place_order issues at most one typed-data request and
\* at most one order POST; when the market resolution or the typed-data
\* request fails, the call raises and no order POST is sent.
C34_OneRequestOnePost ==
    /\ typed_data_requests <= 1
    /\ order_posts <= 1
    /\ place_raised \in {MarketError, TypedDataError}
          => place_pc = "raised" /\ order_posts = 0

C34_Witness ==
    /\ place_pc = "raised"
    /\ place_raised = TypedDataError
    /\ typed_data_requests = 1
    /\ order_posts = 0

\* ---------------------------------------------------------------- C35
\* C35: a submit reads the MarketInfo its own resolution wrote: when its
\* exchange-info request is answered, _market holds the information of the
\* market id that this submit took from its own list answer, and the amount
\* and price are formatted with it, whatever a concurrent poll resolved and
\* wrote in between.
C35_SubmitReadsOwnResolution ==
    [][(task_pc["submit"] = "info" /\ task_pc'["submit"] = "sign")
          => /\ Lookup(market_attr', "self") = MarketInfo(task_market_id["submit"])
             /\ submit_params' = FormatOrder(submit_order, MarketInfo(task_market_id["submit"]))]_vars

\* A submit has formatted with the market it resolved while a poll is in the
\* middle of resolving another market.
C35_Witness ==
    /\ task_pc["submit"] = "sign"
    /\ task_pc["poll"] = "info"
    /\ task_market_id["poll"] # Lookup(market_attr, "self").id
    /\ submit_params = FormatOrder(submit_order, Lookup(market_attr, "self"))
    /\ submit_used.list /\ submit_used.info

\* ---------------------------------------------------------------- C36
\* C36: the cancel POST is sent only after the typed-data request for the
\* same single exchange order id has succeeded and the payload has been
\* signed; a failure of the typed-data request other than "Orders not found"
\* leaves _place_cancel as an exception, with no POST sent and without a call
\* of the order-not-found handler.
C36_PostOnlyAfterSignedTypedData ==
    /\ cancel_posts <= cancel_signs
    /\ cancel_posts > 0 => (Len(cancel_ids) = 1 /\ cancel_error = NoError)
    /\ (cancel_error # NoError /\ ~(cancel_error.class = "IOError" /\ is_not_active(cancel_error)))
          => /\ cancel_pc = "raised"
             /\ cancel_raised = cancel_error
             /\ cancel_posts = 0
             /\ not_found_calls = 0

C36_Witness ==
    /\ cancel_pc = "raised"
    /\ cancel_error.class = "IOError"
    /\ ~is_not_active(cancel_error)
    /\ cancel_raised = cancel_error
    /\ cancel_signs = 0
    /\ cancel_posts = 0
    /\ not_found_calls = 0

\* ---------------------------------------------------------------- C37
\* C37: with several trading pairs configured, the market resolved for an
\* order, whose precisions format its amount and price, is the market of the
\* order's own trading pair, whichever pair comes last in the list.
C37_MarketOfOwnPair ==
    [][(task_pc["submit"] = "info" /\ task_pc'["submit"] = "sign")
          => /\ Lookup(market_attr', "self").symbol =
                    exchange_symbol_associated_to_pair(submit_order.trading_pair)
             /\ submit_params' = FormatOrder(submit_order, Lookup(market_attr', "self"))]_vars

\* ---------------------------------------------------------------- C38
\* C38: for every order type the connector declares as supported,
\* _place_order requests the typed data, signs it and sends the order POST:
\* a submit of a supported type that ends before the POST does so because
\* the market resolution or the typed-data request failed, never because of
\* its order type.
C38_SupportedTypeReachesPost ==
    (/\ place_order_type \in supported_order_types
     /\ place_pc = "raised"
     /\ order_posts = 0)
        => place_raised \in {MarketError, TypedDataError}

\* ---------------------------------------------------------------- C39
\* C39: after any sequence of start_network and stop_network calls that ends
\* with stop_network, no approve_allowance task is still running and the
\* stored task reference is empty: every task start_network created has been
\* cancelled by a later stop_network, unless it had ended by itself.
C39_NoTaskAfterStop ==
    network_last = "stop"
        => /\ allowance_polling_task = 0
           /\ \A id \in TaskIds : allowance_tasks[id] # "running"

====
